---- MODULE Spec2Model ----
(***************************************************************************)
(* A model of the weekly planning pipeline of reddit-mastermind:           *)
(* slot allocation, subreddit matching, persona assignment, thread         *)
(* generation and the quality checker.  Every stage is modelled from its   *)
(* source; each stage has a specification of its own (SpecAlloc,           *)
(* SpecMatch, SpecAssign, SpecGen, SpecQuality, SpecPipeline) over the     *)
(* variables of that stage.                                                *)
(*                                                                         *)
(* Math.random() is a nondeterministic choice.  A score "base + jitter"    *)
(* with a jitter in [0, w) is kept as its base in tenths; a candidate can  *)
(* be sorted before another one exactly when base + w > the other base.    *)
(***************************************************************************)
EXTENDS Integers, Sequences, FiniteSets, TLC

\* ---------------------------------------------------------------- bounds
MaxPersonas == 4
MaxSlots == 2
MaxVenues == 2
MaxCount == 8
MaxShuffledCount == 2
MaxPosts == 3
MaxRepairPasses == 2
MaxThreads == 3
MaxChecks == 2
MaxMatchSlots == 3
MaxCommenters == 2
MaxWordings == 2
MaxMentionCount == 1
MaxStoredPosts == 2
MaxBatchSlots == 5
MaxModeReads == 3
MaxDelay == 2

\* ------------------------------------------------------------- variables
VARIABLES
  \* reply timing (generateComments, generateOPFollowUp)
  tmPc,           \* the statement generateComments is at
  tmCons,         \* effectiveConstraints
  tmCommenters,   \* slot.commenterPersonas.length
  lastTimestamp,  \* lastTimestamp, in minutes after post.scheduledAt
  tmComments,     \* scheduledAt, delayMinutes and author of each comment
  \* the mode flag (setMockMode, isMockMode)
  modePc,         \* "loaded" once the module of the generator is loaded
  envMockAI,      \* process.env.MOCK_AI === 'true'
  mockMode,       \* the module variable mockMode
  lastSet,        \* the argument of the last setMockMode call, or "unset"
  modeReads,      \* for each isMockMode() call: lastSet then, and the result
  \* generatePost
  postPc,         \* the statement generatePost is at
  postMock,       \* isMockMode()
  postBanned,     \* preferences?.bannedPhrases?.length is not 0
  postResult,     \* what generateWithAI returned for the post prompt
  postTitle,      \* the title of the returned Post
  postBody,       \* the body of the returned Post
  \* the backend call (generateWithAI) inside a live run of generateThreads
  aiPc,           \* the statement the run is at
  aiProvider,     \* getProvider()
  aiKey,          \* the provider's API key is set
  aiSlots,        \* slots.length
  aiCommenters,   \* the commenters of each slot
  aiIdx,          \* the slot being generated
  aiCallsLeft,    \* the calls the thread of this slot has still to make
  aiResponse,     \* what fetch settled with
  aiResult,       \* the GenerationResult returned
  aiThreads,      \* threads: the slot of each thread
  aiErrors,       \* errors: the slot of each error
  \* post-processing of one generated field (sanitizePostBody, generateComments)
  rwPc,           \* the statement the post-processing is at
  rwMock,         \* isMockMode()
  rwField,        \* "body" or "reply"
  rwLimits,       \* which of the min and max length preferences are set
  rwPrev,         \* the wordings of the comments pushed before this reply
  rwAllowProduct, \* preferences?.allowProductMention !== false
  rwChosen,       \* mentionIndices.has(i) || i === mentionProductIndex
  rwText,         \* next / finalText
  rwCalls,        \* the calls of generateWithAI with a variation prompt
  \* generateThreads
  gtPc,           \* "loop" while generateThreads runs
  gtMock,         \* isMockMode()
  gtSlots,        \* slots.length
  gtIdx,          \* the slots the loop has been through
  gtThreads,      \* threads: the slot of each thread
  gtErrors,       \* errors: the slot of each error
  \* persistence (saveCalendar, loadWeekPosts)
  dbPc,           \* "save", "saved", "failed" or "loaded"
  dbOutput,       \* output.posts
  dbRows,         \* the rows of the posts table
  dbLoaded,       \* the posts loadWeekPosts returned
  \* thread generator (generateComments)
  genPc,          \* the statement generateComments is at
  genMock,        \* isMockMode()
  genApiKey,      \* the provider generateWithAI uses has its API key set
  genFetched,     \* generateWithAI has called fetch
  genCompany,     \* company.name
  genPrefs,       \* preferences
  genRisk,        \* riskTolerance
  genSubAllowsPromo,   \* slot.subreddit.rules?.allowsSelfPromotion !== false
  genForce,       \* shouldForceProductMention(post)
  genCommenters,  \* the postingStyle of each of slot.commenterPersonas
  mentionIndices,      \* the replies drawn to mention the product
  mentionProductIndex, \* the single reply drawn to mention it, or 0
  disagreementIndex,   \* the reply drawn to disagree, or 0
  usedMockComments,    \* the canned texts used so far
  genComments,    \* comments
  genReturned,    \* for each comment: the text first returned for it by
                  \* the backend or the mock contains the company name
  \* quality checker (checkQuality, scoreThread)
  qPc,            \* "run" while the checker is in use
  qThreads,       \* the threads handed to the checker
  qConfig,        \* the rest of the QualityCheckConfig
  qReports,       \* the reports of the runs of checkQuality so far
  qScores,        \* the results of scoreThread for threads 1.., in tenths
  \* the pipeline (generateWeeklyCalendar)
  pipePc,         \* the statement generateWeeklyCalendar is at
  pipeInput,      \* the PlannerInput
  pipeCons,       \* constraints after applyRiskTolerance
  pipeStages,     \* the stages called so far, in order
  pipeError,      \* the lines of the error thrown, if any
  pipeSlots,      \* slotResult.slots.length
  pipeMatched,    \* matchResult.slots.length
  pipeAssigned,   \* assignResult.slots.length
  pipeThreads,    \* threadResult.threads: the post id of each thread
  pipeReport,     \* qualityResult.report
  pipeBest,       \* the highest report.overallScore checkQuality has
                  \* returned in this run, 0 before the first report
  pipePass,       \* repair passes started
  pipeOutput,     \* the PlannerOutput returned
  \* slot allocator (allocateSlots)
  alPc,           \* "loop" | "done"
  alCount,        \* config.count
  alPrefer,       \* config.preferWeekdays
  daysToUse,      \* the day offsets chosen by selectDaysForPosts
  alSlots,        \* the TimeSlots pushed so far; sorted when "done"
  timesUsed,      \* the times of day chosen so far
  \* subreddit matcher (matchSubreddits)
  mPc,            \* "run" | "done"
  mSubs,          \* the subreddits supplied: index -> [name, sensitivity]
  mCons,          \* the PlannerConstraints handed to the matcher
  mHistory,       \* keyword ids in topicsUsed of the one previous week
  mIdx,           \* number of input slots consumed so far
  mNow,           \* date (in hours) of the last input slot consumed
  subredditUsage, \* subreddit -> [postsThisWeek, lastPostDate]
  keywordUsage,   \* keyword -> number of posts it was selected for
  matchedSlots,   \* the MatchedSlots pushed so far
  topicsSkipped,  \* input slots for which no subreddit was eligible
  \* persona assigner (assignPersonas)
  asgPc,          \* "run" | "done" | "error"
  asgPersonas,    \* number of personas supplied; personas are 1..asgPersonas
  asgCons,        \* the PlannerConstraints in effect
  asgIdx,         \* number of input slots consumed so far
  asgNow,         \* date (in hours) of the last input slot consumed
  usage,          \* persona -> [postsThisWeek, commentsThisWeek, lastPostDate]
  pairingsThisWeek, \* set of pairing keys, a key being a set of two personas
  assignedSlots,  \* the AssignedSlots pushed so far
  asgWarnings,    \* input slots for which a warning was pushed
  asgRelaxed      \* TRUE once the relaxed commenter filter has been used

dbVars == <<dbPc, dbOutput, dbRows, dbLoaded>>

gtVars == <<gtPc, gtMock, gtSlots, gtIdx, gtThreads, gtErrors>>

rwVars == <<rwPc, rwMock, rwField, rwLimits, rwPrev, rwAllowProduct, rwChosen, rwText, rwCalls>>

aiVars == <<aiPc, aiProvider, aiKey, aiSlots, aiCommenters, aiIdx, aiCallsLeft, aiResponse, aiResult, aiThreads, aiErrors>>

postVars == <<postPc, postMock, postBanned, postResult, postTitle, postBody>>

modeVars == <<modePc, envMockAI, mockMode, lastSet, modeReads>>

tmVars == <<tmPc, tmCons, tmCommenters, lastTimestamp, tmComments>>

genVars == <<genPc, genMock, genApiKey, genFetched, genCompany, genPrefs, genRisk, genSubAllowsPromo,
             genForce, genCommenters, mentionIndices, mentionProductIndex,
             disagreementIndex,
             usedMockComments, genComments, genReturned>>

qVars == <<qPc, qThreads, qConfig, qReports, qScores>>

pipeVars == <<pipePc, pipeInput, pipeCons, pipeStages, pipeError, pipeSlots,
              pipeMatched, pipeAssigned, pipeThreads, pipeReport, pipePass,
              pipeOutput, pipeBest>>

allocVars == <<alPc, alCount, alPrefer, daysToUse, alSlots, timesUsed>>

matchVars == <<mPc, mSubs, mCons, mHistory, mIdx, mNow, subredditUsage,
               keywordUsage, matchedSlots, topicsSkipped>>

asgVars == <<asgPc, asgPersonas, asgCons, asgIdx, asgNow, usage,
             pairingsThisWeek, assignedSlots, asgWarnings, asgRelaxed>>

vars == <<tmVars, modeVars, postVars, aiVars, rwVars, gtVars, dbVars, genVars, qVars, pipeVars, allocVars, matchVars, asgVars>>

\* the variables a stage leaves alone
otherThanQuality == <<tmVars, modeVars, postVars, aiVars, rwVars, gtVars, dbVars, genVars, pipeVars, allocVars, matchVars, asgVars>>
otherThanPipe == <<tmVars, modeVars, postVars, aiVars, rwVars, gtVars, dbVars, genVars, qVars, allocVars, matchVars, asgVars>>
otherThanAlloc == <<tmVars, modeVars, postVars, aiVars, rwVars, gtVars, dbVars, genVars, qVars, pipeVars, matchVars, asgVars>>
otherThanMatch == <<tmVars, modeVars, postVars, aiVars, rwVars, gtVars, dbVars, genVars, qVars, pipeVars, allocVars, asgVars>>
otherThanAsg == <<tmVars, modeVars, postVars, aiVars, rwVars, gtVars, dbVars, genVars, qVars, pipeVars, allocVars, matchVars>>
otherThanStore == <<tmVars, modeVars, postVars, aiVars, rwVars, gtVars, genVars, qVars, pipeVars, allocVars, matchVars, asgVars>>
otherThanThreads == <<tmVars, modeVars, postVars, aiVars, rwVars, dbVars, genVars, qVars, pipeVars, allocVars, matchVars, asgVars>>
otherThanRewrite == <<tmVars, modeVars, postVars, aiVars, gtVars, dbVars, genVars, qVars, pipeVars, allocVars, matchVars, asgVars>>
otherThanBackend == <<tmVars, modeVars, postVars, rwVars, gtVars, dbVars, genVars, qVars, pipeVars, allocVars, matchVars, asgVars>>
otherThanPost == <<tmVars, modeVars, aiVars, rwVars, gtVars, dbVars, genVars, qVars, pipeVars, allocVars, matchVars, asgVars>>
otherThanMode == <<tmVars, postVars, aiVars, rwVars, gtVars, dbVars, genVars, qVars, pipeVars, allocVars, matchVars, asgVars>>
otherThanTiming == <<modeVars, postVars, aiVars, rwVars, gtVars, dbVars, genVars, qVars, pipeVars, allocVars, matchVars, asgVars>>
otherThanGen == <<tmVars, modeVars, postVars, aiVars, rwVars, gtVars, dbVars, qVars, pipeVars, allocVars, matchVars, asgVars>>

\* ------------------------------------------------------------- utilities
Min2(a, b) == IF a <= b THEN a ELSE b
Max2(a, b) == IF a >= b THEN a ELSE b

RECURSIVE SeqsNoDup(_, _)
\* the sequences of exactly k distinct elements of S
SeqsNoDup(S, k) ==
  IF k = 0 THEN { <<>> }
  ELSE UNION { { <<x>> \o t : t \in SeqsNoDup(S \ {x}, k - 1) } : x \in S }

Range(s) == { s[i] : i \in 1..Len(s) }

RECURSIVE SortedSeq(_)
\* the numbers of S in increasing order
SortedSeq(S) ==
  IF S = {} THEN <<>>
  ELSE LET m == CHOOSE x \in S : \A y \in S : x <= y
       IN <<m>> \o SortedSeq(S \ {m})

RECURSIVE Concat(_)
\* the concatenation of a sequence of sequences
Concat(ss) == IF ss = <<>> THEN <<>> ELSE Head(ss) \o Concat(Tail(ss))

RECURSIVE uniqueInOrder(_)
\* the distinct entries of s in the order of their first occurrence (the
\* key order of an object or Map filled while iterating s)
uniqueInOrder(s) ==
  IF s = <<>> THEN <<>>
  ELSE LET r == uniqueInOrder(SubSeq(s, 1, Len(s) - 1))
       IN IF s[Len(s)] \in Range(r) THEN r ELSE Append(r, s[Len(s)])

RECURSIVE SumSeq(_)
SumSeq(s) == IF s = <<>> THEN 0 ELSE Head(s) + SumSeq(Tail(s))

\* the pairs <<i, j>> with 1 <= i < j <= n, in the order of two nested loops
OrderedPairs(n) ==
  LET codes == SortedSeq({ i * (n + 1) + j : i \in 1..n, j \in 1..n } \cap
                         { c \in 0..((n + 1) * (n + 1)) :
                             c \div (n + 1) < c % (n + 1) })
  IN [k \in 1..Len(codes) |-> <<codes[k] \div (n + 1), codes[k] % (n + 1)>>]

NoDate == -1000

\* ============================================================ constraints
ThreadTypes == {"question", "advice", "story", "discussion"}
Styles == <<"asks_questions", "gives_answers", "balanced">>

\* Persona p's posting style and expertise tags (the roster of the tests,
\* continued cyclically; every second persona has a second expertise tag).
postingStyle(p) == Styles[((p - 1) % 3) + 1]
expertise(p) == IF p % 2 = 0 THEN {"testing"} ELSE {"testing", "design"}

\* The constraint sets a run is started with: the defaults, a tight set and
\* a set without the pairing rule.
DefaultAsgConstraints ==
  [maxPostsPerPersonaPerWeek |-> 2, maxCommentsPerPersonaPerWeek |-> 6,
   minHoursBetweenSamePersonaPosts |-> 24, maxPersonasPerThread |-> 3,
   noRepeatedPairingsPerWeek |-> TRUE]
AsgConstraintSets ==
  { DefaultAsgConstraints,
    [DefaultAsgConstraints EXCEPT !.maxPostsPerPersonaPerWeek = 1,
                                  !.maxCommentsPerPersonaPerWeek = 1,
                                  !.maxPersonasPerThread = 2],
    [DefaultAsgConstraints EXCEPT !.maxCommentsPerPersonaPerWeek = 1,
                                  !.noRepeatedPairingsPerWeek = FALSE] }

createPairingKey(a, b) == {a, b}

\* canPersonaPost with the time spacing only
canPersonaPostSpacingOnly(p, u, cons, proposedDate) ==
  \/ u[p].lastPostDate = NoDate
  \/ proposedDate - u[p].lastPostDate >= cons.minHoursBetweenSamePersonaPosts

canPersonaPost(p, u, cons, proposedDate) ==
  /\ u[p].postsThisWeek < cons.maxPostsPerPersonaPerWeek
  /\ \/ u[p].lastPostDate = NoDate
     \/ proposedDate - u[p].lastPostDate >= cons.minHoursBetweenSamePersonaPosts

canPersonasInteract(a, b, pairings, cons) ==
  \/ ~cons.noRepeatedPairingsPerWeek
  \/ createPairingKey(a, b) \notin pairings

\* ========================================================= slot allocator
TimesOfDay == <<"morning", "afternoon", "evening">>

\* availableDays: Mon-Fri then Sun, Sat, or a shuffle of 0..6
AvailableDays(preferWeekdays) ==
  IF preferWeekdays THEN { <<1, 2, 3, 4, 5, 0, 6>> }
  ELSE SeqsNoDup(0..6, 7)

distributeEvenly(available, needed) ==
  IF needed >= Len(available) THEN available
  ELSE [i \in 1..needed |->
          available[Min2(((i - 1) * Len(available)) \div needed,
                         Len(available) - 1) + 1]]

selectDaysForPosts(availableDays, needed) ==
  IF needed >= Len(availableDays)
    THEN [i \in 1..needed |-> availableDays[((i - 1) % Len(availableDays)) + 1]]
    ELSE distributeEvenly(availableDays, needed)

\* the times of day selectTimeSlot can return: any least-used one
selectTimeSlot(alreadyUsed) ==
  LET usageCounts(t) ==
        Cardinality({ i \in 1..Len(alreadyUsed) : alreadyUsed[i] = t })
      minUsage == CHOOSE m \in { usageCounts(t) : t \in Range(TimesOfDay) } :
                    \A t \in Range(TimesOfDay) : m <= usageCounts(t)
  IN { t \in Range(TimesOfDay) : usageCounts(t) = minUsage }

\* The minutes after midnight setTimeForSlot can set: baseHour plus less
\* than variance hours, and a minute.  Of the hours and minutes the random
\* draws can give, the earliest and the latest time are kept.
setTimeForSlot(timeOfDay) ==
  LET baseHour == CASE timeOfDay = "morning" -> 8
                    [] timeOfDay = "afternoon" -> 12
                    [] OTHER -> 17
      variance == IF timeOfDay = "morning" THEN 3 ELSE 4
  IN { baseHour * 60, (baseHour + variance - 1) * 60 + 59 }

RECURSIVE InsertByDate(_, _)
\* x inserted into the sorted list s after the entries that are not later
InsertByDate(s, x) ==
  IF s = <<>> THEN <<x>>
  ELSE IF Head(s).date <= x.date THEN <<Head(s)>> \o InsertByDate(Tail(s), x)
  ELSE <<x>> \o s

RECURSIVE sortByDateFrom(_, _)
sortByDateFrom(acc, s) ==
  IF s = <<>> THEN acc
  ELSE sortByDateFrom(InsertByDate(acc, Head(s)), Tail(s))

\* allocateSlots without its final sort
keepPushOrder(s) == s

\* slots.sort((a, b) => a.date - b.date): a stable sort by date
sortByDate(s) == sortByDateFrom(<<>>, s)

\* the allocator before it is called
AllocIdle ==
  /\ alPc = "idle"
  /\ alCount = 0
  /\ alPrefer = TRUE
  /\ daysToUse = <<>>
  /\ alSlots = <<>>
  /\ timesUsed = <<>>

\* the state in which the loop of allocateSlots is entered
AllocStart ==
  /\ alPc = "loop"
  /\ alCount \in 1..MaxCount
  /\ alPrefer \in { b \in BOOLEAN : b \/ alCount <= MaxShuffledCount }
  /\ daysToUse \in { selectDaysForPosts(a, alCount) : a \in AvailableDays(alPrefer) }
  /\ alSlots = <<>>
  /\ timesUsed = <<>>

\* one iteration of the loop of allocateSlots; dates are minutes after
\* weekStart
AllocSlot ==
  /\ alPc = "loop" /\ Len(alSlots) < alCount
  /\ LET dayOffset == daysToUse[Len(alSlots) + 1]
     IN \E timeOfDay \in selectTimeSlot(timesUsed) :
          \E minutes \in setTimeForSlot(timeOfDay) :
            /\ alSlots' = Append(alSlots,
                 [date |-> dayOffset * 1440 + minutes,
                  dayOfWeek |-> dayOffset, timeOfDay |-> timeOfDay])
            /\ timesUsed' = Append(timesUsed, timeOfDay)
  /\ UNCHANGED <<alPc, alCount, alPrefer, daysToUse>>
  /\ UNCHANGED otherThanAlloc

\* the loop is over: the slots are sorted by date and returned
AllocReturn ==
  /\ alPc = "loop" /\ Len(alSlots) >= alCount
  /\ alSlots' = sortByDate(alSlots)
  /\ alPc' = "done"
  /\ UNCHANGED <<alCount, alPrefer, daysToUse, timesUsed>>
  /\ UNCHANGED otherThanAlloc

AllocNext ==
  \/ AllocSlot
  \/ AllocReturn

\* ====================================================== subreddit matcher
\* The constraint fields the matcher and getSubredditConstraints read.
DefaultMatchConstraints ==
  [maxPostsPerSubredditPerWeek |-> 2, minDaysBetweenSubredditPosts |-> 3,
   maxPromoScoreAllowed |-> 6]

\* the constraints a run is started with: the defaults, and the defaults
\* with a weekly cap of 1 or 3
MatchConstraintSets ==
  { [DefaultMatchConstraints EXCEPT !.maxPostsPerSubredditPerWeek = c] :
      c \in 1..3 }

SUBREDDIT_PRESETS ==
  [n \in {"r/AskReddit", "r/consulting", "r/startups"} |->
     CASE n = "r/AskReddit" ->
            [maxPostsPerSubredditPerWeek |-> 3, minDaysBetweenSubredditPosts |-> 2]
       [] n = "r/consulting" ->
            [maxPostsPerSubredditPerWeek |-> 1, minDaysBetweenSubredditPosts |-> 7,
             maxPromoScoreAllowed |-> 4]
       [] OTHER ->
            [maxPostsPerSubredditPerWeek |-> 2, maxPromoScoreAllowed |-> 5]]

\* { ...base, ...over }: the fields of over replace those of base
Spread(base, over) ==
  [f \in DOMAIN base |-> IF f \in DOMAIN over THEN over[f] ELSE base[f]]

getSubredditConstraints(subreddit, baseConstraints) ==
  LET preset == IF subreddit.name \in DOMAIN SUBREDDIT_PRESETS
                  THEN SUBREDDIT_PRESETS[subreddit.name] ELSE <<>>
      sensitivityAdjustments ==
        CASE subreddit.sensitivity = "high" ->
               [maxPostsPerSubredditPerWeek |->
                  Max2(1, baseConstraints.maxPostsPerSubredditPerWeek - 1),
                minDaysBetweenSubredditPosts |->
                  baseConstraints.minDaysBetweenSubredditPosts + 2,
                maxPromoScoreAllowed |->
                  Max2(2, baseConstraints.maxPromoScoreAllowed - 1)]
          [] subreddit.sensitivity = "low" ->
               [maxPostsPerSubredditPerWeek |->
                  baseConstraints.maxPostsPerSubredditPerWeek + 1,
                minDaysBetweenSubredditPosts |->
                  Max2(1, baseConstraints.minDaysBetweenSubredditPosts - 1)]
          [] OTHER -> <<>>
  IN Spread(Spread(baseConstraints, preset), sensitivityAdjustments)

\* The subreddits a run can be given (a missing sensitivity is "medium").
SubredditKinds ==
  { [name |-> "r/PowerPoint", sensitivity |-> "medium"],
    [name |-> "r/PowerPoint", sensitivity |-> "high"],
    [name |-> "r/productivity", sensitivity |-> "low"],
    [name |-> "r/consulting", sensitivity |-> "medium"],
    [name |-> "r/AskReddit", sensitivity |-> "medium"] }

\* The keywords of a run.  intent is the thread type the words of the
\* keyword indicate to determineThreadType; direct and category are the
\* subreddit names matched by the keyword's text and by its category.
Keywords ==
  << [intent |-> "question", priority |-> 0,
      direct |-> {"r/PowerPoint"}, category |-> {}],
     [intent |-> "advice", priority |-> 1,
      direct |-> {}, category |-> {"r/PowerPoint"}],
     [intent |-> "discussion", priority |-> 0,
      direct |-> {}, category |-> {"r/productivity"}] >>

canPostToSubreddit(s, u, cons, proposedDate) ==
  \/ s \notin DOMAIN u
  \/ /\ u[s].postsThisWeek < cons.maxPostsPerSubredditPerWeek
     /\ proposedDate - u[s].lastPostDate
          >= 24 * cons.minDaysBetweenSubredditPosts

\* The subreddits selectSubreddit can return: score = -usage + a jitter in
\* [0, 0.5), so an eligible subreddit wins iff no eligible one is used less.
selectSubreddit(n, u, proposedDate, cons) ==
  LET eligible == { s \in 1..n : canPostToSubreddit(s, u, cons, proposedDate) }
      used(s) == IF s \in DOMAIN u THEN u[s].postsThisWeek ELSE 0
  IN { s \in eligible :
         \A q \in eligible : -10 * used(s) + 5 > -10 * used(q) }

\* relevance * 3, in tenths (no subreddit description is supplied)
calculateSubredditRelevance(k, subreddit) ==
  IF subreddit.name \in Keywords[k].direct THEN 30
  ELSE IF subreddit.name \in Keywords[k].category THEN 18
  ELSE 9

buildFreshnessPenalties(history) ==
  [k \in DOMAIN Keywords |-> IF k \in history THEN 10 ELSE 0]

\* score of selectKeywords without its jitter, in tenths
kwBase(k, subreddit, kwUsage, penalties) ==
  calculateSubredditRelevance(k, subreddit) - penalties[k]
    - 20 * kwUsage[k] + 10 * Keywords[k].priority

\* the lists selectKeywords can return: the first two entries of an order
\* by score that some jitter in [0, 0.5) produces
selectKeywords(subreddit, kwUsage, penalties) ==
  { s \in SeqsNoDup(DOMAIN Keywords, Min2(2, Len(Keywords))) :
      /\ \A i, j \in 1..Len(s) :
            i < j => kwBase(s[i], subreddit, kwUsage, penalties) + 5
                       > kwBase(s[j], subreddit, kwUsage, penalties)
      /\ \A i \in 1..Len(s) : \A r \in DOMAIN Keywords \ Range(s) :
            kwBase(s[i], subreddit, kwUsage, penalties) + 5
              > kwBase(r, subreddit, kwUsage, penalties) }

determineThreadType(kws) ==
  LET intents == { Keywords[kws[i]].intent : i \in 1..Len(kws) }
  IN IF "question" \in intents THEN "question"
     ELSE IF "advice" \in intents THEN "advice"
     ELSE IF "story" \in intents THEN "story"
     ELSE "discussion"

\* the gaps, in hours, between one input slot and the next
MatchGaps == {6, 48, 72}

\* the slot is dropped and nothing is recorded
dropSilently(diagnostics, slot) == diagnostics

\* topicsSkipped.push(`No eligible subreddit for slot at ${slot.date}`) in
\* matchSubreddits and warnings.push(`Could not find eligible OP for slot
\* at ${slot.date}`) in assignPersonas; slots differ in their dates, and a
\* diagnostic is kept as the slot it names
pushDiagnostic(diagnostics, slot) == diagnostics \cup {slot}

\* the matcher before it is called
MatchIdle ==
  /\ mPc = "idle"
  /\ mSubs = <<>>
  /\ mCons = DefaultMatchConstraints
  /\ mHistory = {}
  /\ mIdx = 0
  /\ mNow = 0
  /\ subredditUsage = <<>>
  /\ keywordUsage = <<>>
  /\ matchedSlots = <<>>
  /\ topicsSkipped = {}

\* the state in which the loop of matchSubreddits is entered
MatchStart ==
  /\ mPc = "run"
  /\ \E n \in 1..MaxVenues : mSubs \in [1..n -> SubredditKinds]
  /\ mCons \in MatchConstraintSets
  /\ mHistory \in {{}, {1}}
  /\ mIdx = 0
  /\ mNow = 0
  /\ subredditUsage = <<>>
  /\ keywordUsage = [k \in DOMAIN Keywords |-> 0]
  /\ matchedSlots = <<>>
  /\ topicsSkipped = {}

\* one iteration of the loop of matchSubreddits over a slot for which no
\* subreddit is eligible
MatchSlotSkipped ==
  /\ mPc = "run" /\ mIdx < MaxMatchSlots
  /\ \E gap \in MatchGaps :
       /\ selectSubreddit(Len(mSubs), subredditUsage, mNow + gap, mCons) = {}
       /\ mNow' = mNow + gap
  /\ mIdx' = mIdx + 1
  /\ topicsSkipped' = pushDiagnostic(topicsSkipped, mIdx + 1)
  /\ UNCHANGED <<mPc, mSubs, mCons, mHistory, subredditUsage, keywordUsage,
                 matchedSlots>>
  /\ UNCHANGED otherThanMatch

\* one iteration of the loop of matchSubreddits over a slot that is matched
MatchSlot ==
  /\ mPc = "run" /\ mIdx < MaxMatchSlots
  /\ \E gap \in MatchGaps :
       LET date == mNow + gap
       IN \E s \in selectSubreddit(Len(mSubs), subredditUsage, date, mCons) :
            \E kws \in selectKeywords(mSubs[s], keywordUsage,
                                      buildFreshnessPenalties(mHistory)) :
              /\ matchedSlots' = Append(matchedSlots,
                   [slot |-> mIdx + 1, date |-> date, subreddit |-> s,
                    keywords |-> kws, threadType |-> determineThreadType(kws)])
              /\ subredditUsage' =
                   [q \in DOMAIN subredditUsage \cup {s} |->
                      IF q = s
                        THEN [postsThisWeek |->
                                (IF s \in DOMAIN subredditUsage
                                   THEN subredditUsage[s].postsThisWeek ELSE 0) + 1,
                              lastPostDate |-> date]
                        ELSE subredditUsage[q]]
              /\ keywordUsage' =
                   [k \in DOMAIN keywordUsage |->
                      keywordUsage[k] + (IF k \in Range(kws) THEN 1 ELSE 0)]
              /\ mNow' = date
  /\ mIdx' = mIdx + 1
  /\ UNCHANGED <<mPc, mSubs, mCons, mHistory, topicsSkipped>>
  /\ UNCHANGED otherThanMatch

\* the loop is over: matchSubreddits returns
MatchReturn ==
  /\ mPc = "run"
  /\ mPc' = "done"
  /\ UNCHANGED <<mSubs, mCons, mHistory, mIdx, mNow, subredditUsage,
                 keywordUsage, matchedSlots, topicsSkipped>>
  /\ UNCHANGED otherThanMatch

MatchNext ==
  \/ MatchSlotSkipped
  \/ MatchSlot
  \/ MatchReturn

\* ======================================================= persona assigner
getThreadTypeFitScore(p, tt) ==
  CASE postingStyle(p) = "asks_questions" ->
         (CASE tt = "question" -> 10 [] tt = "advice" -> 8
            [] tt = "story" -> 5 [] OTHER -> 7)
    [] postingStyle(p) = "gives_answers" ->
         (CASE tt = "question" -> 3 [] tt = "advice" -> 7
            [] tt = "story" -> 9 [] OTHER -> 8)
    [] OTHER -> 7

\* The personas whose fit for the thread type is decided by Math.random().
fitIsRandom(p, tt) == postingStyle(p) = "gives_answers" /\ tt = "question"

\* score of selectOP without its jitter, in tenths
opBase(p, u, tt) == getThreadTypeFitScore(p, tt) - 20 * u[p].postsThisWeek

\* The personas selectOP can return for the eligible set E: those a jitter
\* in [0, 1) can put first.
selectOP(E, u, tt) ==
  { p \in E : \A q \in E \ {p} : opBase(p, u, tt) + 10 > opBase(q, u, tt) }

calculateExpertiseOverlapHalf(a, b) ==
  \* TRUE iff the overlap |a \cap b| / |a \cup b| is below 0.5
  IF a = {} \/ b = {} THEN TRUE
  ELSE 2 * Cardinality(a \cap b) < Cardinality(a \cup b)

getComplementScore(op, c) ==
  IF postingStyle(op) = "asks_questions" /\ postingStyle(c) = "gives_answers"
    THEN 10
  ELSE IF postingStyle(op) = "gives_answers" /\ postingStyle(c) = "gives_answers"
    THEN 7
  ELSE IF calculateExpertiseOverlapHalf(expertise(op), expertise(c)) THEN 8
  ELSE 5

\* the first filter of selectCommenters
eligibleCommenters(op, n, u, pairings, cons) ==
  { p \in 1..n :
      /\ p # op
      /\ u[p].commentsThisWeek < cons.maxCommentsPerPersonaPerWeek
      /\ canPersonasInteract(op, p, pairings, cons) }

\* relaxedEligible with the exclusion of the OP left out
relaxedCommentersKeepOP(op, n, u, cons) ==
  { p \in 1..n : u[p].commentsThisWeek < cons.maxCommentsPerPersonaPerWeek }

\* relaxedEligible with the comment limit left out as well
relaxedCommentersNoCap(op, n, u, cons) ==
  { p \in 1..n : p # op }

\* the fallback filter of selectCommenters: the pairing rule is dropped
relaxedCommenters(op, n, u, cons) ==
  { p \in 1..n :
      /\ p # op
      /\ u[p].commentsThisWeek < cons.maxCommentsPerPersonaPerWeek }

cmBase(op, p, u) == getComplementScore(op, p) - 10 * u[p].commentsThisWeek

\* The lists selectCommenters can return for the candidates R and the
\* target count: the first Min(count, |R|) entries of an order by score
\* that some jitter produces.
selectCommenters(op, R, count, u) ==
  { s \in SeqsNoDup(R, Min2(count, Cardinality(R))) :
      /\ \A i, j \in 1..Len(s) :
            i < j => cmBase(op, s[i], u) + 10 > cmBase(op, s[j], u)
      /\ \A i \in 1..Len(s) : \A r \in R \ Range(s) :
            cmBase(op, s[i], u) + 10 > cmBase(op, r, u) }

maxCommenters(n, cons) == Min2(Min2(cons.maxPersonasPerThread - 1, n - 1), 3)

updateUsage(u, op, commenters, date) ==
  [p \in DOMAIN u |->
     [postsThisWeek |-> u[p].postsThisWeek + (IF p = op THEN 1 ELSE 0),
      commentsThisWeek |->
        u[p].commentsThisWeek
          + Cardinality({ i \in 1..Len(commenters) : commenters[i] = p }),
      lastPostDate |-> IF p = op THEN date ELSE u[p].lastPostDate]]

updatePairings(pairings, op, commenters) ==
  pairings
    \cup { createPairingKey(op, commenters[i]) : i \in 1..Len(commenters) }
    \cup { createPairingKey(commenters[i], commenters[j]) :
             <<i, j>> \in { ij \in (1..Len(commenters)) \X (1..Len(commenters)) :
                              ij[1] < ij[2] } }

\* The gaps, in hours, between one input slot and the next (slots arrive
\* sorted by date): the same day, or the next day.
SlotGaps == {6, 24}

\* a single persona is let through
lessThanOnePersona(n) == n < 1

\* personas.length < 2, on which assignPersonas throws
tooFewPersonas(n) == n < 2

\* the assigner before it is called
AsgIdle ==
  /\ asgPc = "idle"
  /\ asgPersonas = 0
  /\ asgCons = DefaultAsgConstraints
  /\ asgIdx = 0
  /\ asgNow = 0
  /\ usage = <<>>
  /\ pairingsThisWeek = {}
  /\ assignedSlots = <<>>
  /\ asgWarnings = {}
  /\ asgRelaxed = FALSE

\* the state in which assignPersonas is entered
AsgStart ==
  /\ asgPc = "run"
  /\ asgPersonas \in 1..MaxPersonas
  /\ asgCons \in AsgConstraintSets
  /\ asgIdx = 0
  /\ asgNow = 0
  /\ usage = [p \in 1..asgPersonas |->
               [postsThisWeek |-> 0, commentsThisWeek |-> 0,
                lastPostDate |-> NoDate]]
  /\ pairingsThisWeek = {}
  /\ assignedSlots = <<>>
  /\ asgWarnings = {}
  /\ asgRelaxed = FALSE

\* assignPersonas with fewer than 2 personas: throws
AssignTooFewPersonas ==
  /\ asgPc = "run"
  /\ tooFewPersonas(asgPersonas)
  /\ asgPc' = "error"
  /\ UNCHANGED <<asgPersonas, asgCons, asgIdx, asgNow, usage,
                 pairingsThisWeek, assignedSlots, asgWarnings, asgRelaxed>>
  /\ UNCHANGED otherThanAsg

\* one iteration of the loop of assignPersonas over a slot for which no OP
\* is eligible: a warning is pushed and the slot is skipped
AssignSlotNoOP ==
  /\ asgPc = "run" /\ ~tooFewPersonas(asgPersonas) /\ asgIdx < MaxSlots
  /\ \E gap \in SlotGaps, tt \in ThreadTypes :
       LET date == asgNow + gap
           canPost == { p \in 1..asgPersonas :
                          canPersonaPost(p, usage, asgCons, date) }
       IN /\ \A p \in canPost : fitIsRandom(p, tt)
          /\ asgNow' = date
  /\ asgIdx' = asgIdx + 1
  /\ asgWarnings' = pushDiagnostic(asgWarnings, asgIdx + 1)
  /\ UNCHANGED <<asgPc, asgPersonas, asgCons, usage, pairingsThisWeek,
                 assignedSlots, asgRelaxed>>
  /\ UNCHANGED otherThanAsg

\* one iteration of the loop of assignPersonas over a slot that gets an OP
AssignSlot ==
  /\ asgPc = "run" /\ ~tooFewPersonas(asgPersonas) /\ asgIdx < MaxSlots
  /\ \E gap \in SlotGaps, tt \in ThreadTypes :
       LET date == asgNow + gap
           canPost == { p \in 1..asgPersonas :
                          canPersonaPost(p, usage, asgCons, date) }
           \* the OPs selectOP can return, over the outcomes of the draws
           \* of isPersonaFitForThreadType
           ops == UNION { selectOP(canPost \ unfit, usage, tt) :
                          unfit \in SUBSET { p \in canPost : fitIsRandom(p, tt) } }
       IN \E op \in ops :
              \E count \in 1..Max2(1, maxCommenters(asgPersonas, asgCons)) :
                LET E == eligibleCommenters(op, asgPersonas, usage,
                                            pairingsThisWeek, asgCons)
                    R == IF E = {}
                           THEN relaxedCommenters(op, asgPersonas, usage, asgCons)
                           ELSE E
                IN \E cs \in selectCommenters(op, R, count, usage) :
                     /\ assignedSlots' = Append(assignedSlots,
                          [slot |-> asgIdx + 1, opPersona |-> op,
                           commenterPersonas |-> cs])
                     /\ usage' = updateUsage(usage, op, cs, date)
                     /\ pairingsThisWeek' =
                          updatePairings(pairingsThisWeek, op, cs)
                     /\ asgRelaxed' = (asgRelaxed \/ (E = {} /\ R # {}))
                     /\ asgNow' = date
  /\ asgIdx' = asgIdx + 1
  /\ UNCHANGED <<asgPc, asgPersonas, asgCons, asgWarnings>>
  /\ UNCHANGED otherThanAsg

\* the loop is over: assignPersonas returns
AssignReturn ==
  /\ asgPc = "run" /\ ~tooFewPersonas(asgPersonas)
  /\ asgPc' = "done"
  /\ UNCHANGED <<asgPersonas, asgCons, asgIdx, asgNow, usage,
                 pairingsThisWeek, assignedSlots, asgWarnings, asgRelaxed>>
  /\ UNCHANGED otherThanAsg

AsgNext ==
  \/ AssignTooFewPersonas
  \/ AssignSlotNoOP
  \/ AssignSlot
  \/ AssignReturn


\* ============================================================ persistence
\* saveCalendar and loadWeekPosts.  An optional field or column holds
\* Some(x), Undefined or Null.  A date is its time in milliseconds;
\* toISOString writes it with millisecond precision.
Some(x) == [value |-> x]
Undefined == [absent |-> "undefined"]
Null == [absent |-> "null"]

Intents == {"awareness", "comparison"}

\* the posts generateWeeklyCalendar returns: the fields of generatePost and
\* those set by the scoring loop
PlannedPosts(id) ==
  [id : {id}, companyId : {"c1"}, weekNumber : {1}, title : {"t"},
   scheduledAt : 1..2, threadType : {"question"},
   qualityScore : {Some(70)}, qualityBreakdown : {Some(<<25, 25, 10, 10>>)},
   qualityIssues : {Some(<<>>), Some(<<"too similar">>)},
   qualityWarnings : {Some(<<>>), Some(<<"feels short">>)},
   qualitySuggestions : {Some(<<>>), Some(<<"Rotate personas">>)},
   intent : { Some(i) : i \in Intents }, reviewNotes : {Undefined},
   status : {"draft"}]

toISOString(date) == [iso |-> date]
newDate(iso) == iso.iso

\* value || null; the arrays, objects and scores of a planned post are
\* truthy (an empty array is, and scoreThread gives at least 1)
orNull(value) == IF value \in {Undefined, Null} THEN Null ELSE value

\* value || undefined
orUndefined(value) == IF value \in {Undefined, Null} THEN Undefined ELSE value

\* the row saveCalendar inserts for a post
postRow(post, companyId, weekNumber) ==
  [id |-> post.id, company_id |-> companyId, week_number |-> weekNumber,
   title |-> post.title, scheduled_at |-> toISOString(post.scheduledAt),
   thread_type |-> post.threadType,
   quality_score |-> post.qualityScore,
   quality_breakdown |-> post.qualityBreakdown,
   quality_issues |-> post.qualityIssues,
   quality_warnings |-> post.qualityWarnings,
   review_notes |-> orNull(post.reviewNotes),
   status |-> post.status]

\* the Post loadWeekPosts builds from a row; fields it does not set are
\* undefined
rowPost(row) ==
  [id |-> row.id, companyId |-> row.company_id, weekNumber |-> row.week_number,
   title |-> row.title, scheduledAt |-> newDate(row.scheduled_at),
   threadType |-> row.thread_type,
   qualityScore |-> row.quality_score,
   qualityBreakdown |-> orUndefined(row.quality_breakdown),
   qualityIssues |-> orUndefined(row.quality_issues),
   qualityWarnings |-> orUndefined(row.quality_warnings),
   qualitySuggestions |-> Undefined,
   intent |-> Undefined,
   reviewNotes |-> orUndefined(row.review_notes), status |-> row.status]

\* .order('scheduled_at'): the orders the rows R can come back in
orderedBy(R) ==
  { s \in SeqsNoDup(R, Cardinality(R)) :
      \A i, j \in 1..Len(s) :
        i < j => s[i].scheduled_at.iso <= s[j].scheduled_at.iso }

\* the store before it is used
StoreIdle ==
  /\ dbPc = "idle"
  /\ dbOutput = <<>>
  /\ dbRows = {}
  /\ dbLoaded = <<>>

\* a planner output is at hand and the posts table is empty
StoreStart ==
  /\ dbPc = "save"
  /\ \E n \in 0..MaxStoredPosts :
       dbOutput \in [1..n -> UNION { PlannedPosts(id) : id \in 1..n }]
       /\ \A k \in 1..n : dbOutput[k].id = k
  /\ dbRows = {}
  /\ dbLoaded = <<>>

\* saveCalendar inserts the posts
SaveCalendar ==
  /\ dbPc = "save"
  /\ dbRows' = { postRow(dbOutput[k], "c1", 1) : k \in 1..Len(dbOutput) }
  /\ dbPc' = "saved"
  /\ UNCHANGED <<dbOutput, dbLoaded>>
  /\ UNCHANGED otherThanStore

\* no database is configured or the insert is refused: success is false
SaveCalendarFails ==
  /\ dbPc = "save"
  /\ dbPc' = "failed"
  /\ UNCHANGED <<dbOutput, dbRows, dbLoaded>>
  /\ UNCHANGED otherThanStore

\* loadWeekPosts selects the rows of the company and week
LoadWeekPosts ==
  /\ dbPc = "saved"
  /\ \E rows \in orderedBy({ r \in dbRows :
                              r.company_id = "c1" /\ r.week_number = 1 }) :
       dbLoaded' = [k \in 1..Len(rows) |-> rowPost(rows[k])]
  /\ dbPc' = "loaded"
  /\ UNCHANGED <<dbOutput, dbRows>>
  /\ UNCHANGED otherThanStore

StoreNext ==
  \/ SaveCalendar
  \/ SaveCalendarFails
  \/ LoadWeekPosts

\* ======================================================= thread generator
\* generateComments for one slot.  A text is kept as v, its wording, and co,
\* whether it contains the company name (case-insensitive).  The canned
\* replies of generateMockComment are wordings 1..3 (expertResponses) and
\* 4..6 (casualResponses), the canned OP follow-up is wording 0, and the
\* backend answers with wordings 7 and up.
Companies == {"Slideforge", "Test Company"}
CommenterStyles == {"gives_answers", "asks_questions"}
Risks == {"low", "medium", "high"}

\* preferences?.allowProductMention, preferences?.productMentionCount and
\* preferences?.requireDisagreement (undefined counts as false);
\* "undefined" when no preference is given
GenerationPreferences ==
  [allowProductMention : {"undefined", "true", "false"},
   productMentionCount : 0..MaxMentionCount,
   requireDisagreement : BOOLEAN]

NoPreferences == [allowProductMention |-> "undefined", productMentionCount |-> 0,
                  requireDisagreement |-> FALSE]

\* what generateWithAI can return as text
BackendTexts == [v : 7..(6 + MaxWordings), co : BOOLEAN]

\* the texts generateMockComment draws from; the loop that draws again
\* while the text was used before gives up after 5 draws, so any of them
\* can be the result
generateMockComment(style, company) ==
  IF style = "gives_answers"
    THEN { [v |-> k, co |-> (k <= 2 /\ company = "Slideforge")] : k \in 1..3 }
    ELSE { [v |-> k, co |-> FALSE] : k \in 4..6 }

\* "Thanks everyone, this is really helpful! I'll definitely check these out."
MockFollowUp == [v |-> 0, co |-> FALSE]

\* calculateSimilarity(prev.content, finalText) > 0.5 for some previous comment
similarToPrevious(prev, text) ==
  \E k \in 1..Len(prev) : prev[k].content.v = text.v

\* regenerateComment and removeCompanyMention ask the backend for a
\* variation; the text after "if (revised) finalText = revised" is the
\* variation, or the text as it was when the call fails
regenerateComment(text) == {text} \cup BackendTexts
removeCompanyMention(text) == {text} \cup BackendTexts

\* isCommentLowQuality without length limits and banned phrases
isCommentLowQuality(text, allowProductMention) ==
  ~allowProductMention /\ text.co

\* the outer allowProduct of generateComments
allowProductIn(prefs, risk, subAllowsPromo) ==
  /\ prefs.allowProductMention # "false"
  /\ risk # "low"
  /\ subAllowsPromo

\* the texts reply i can end with in live mode, given the text the backend
\* returned for it
postProcess(text, i, prev, prefs, mIdx2, mSet) ==
  LET chosen == i \in mSet \/ i = mIdx2
      afterSimilar == UNION { IF similarToPrevious(prev, t)
                                THEN regenerateComment(t) ELSE {t} :
                              t \in IF similarToPrevious(prev, text)
                                      THEN regenerateComment(text) ELSE {text} }
      afterQuality == UNION { IF isCommentLowQuality(t, chosen)
                                THEN regenerateComment(t) ELSE {t} :
                              t \in afterSimilar }
      afterRemoval == UNION { IF /\ prefs.allowProductMention = "false"
                                 /\ t.co /\ ~chosen
                                THEN removeCompanyMention(t) ELSE {t} :
                              t \in afterQuality }
  IN UNION { IF similarToPrevious(prev, t) THEN regenerateComment(t) ELSE {t} :
             t \in afterRemoval }

\* Line 275: the shouldMentionProduct flag handed to buildCommentPrompt for
\* reply i
promptMentionsProduct(i, prefs, risk, subAllowsPromo, mSet, mIdx2) ==
  /\ allowProductIn(prefs, risk, subAllowsPromo)
  /\ (i \in mSet \/ i = mIdx2)

\* Line 277: the forceDisagreement flag handed to buildCommentPrompt for
\* reply i
promptForcesDisagreement(i, dIdx) == i = dIdx

\* the generator before it is used
GenIdle ==
  /\ genPc = "idle"
  /\ genMock = FALSE
  /\ genApiKey = FALSE
  /\ genFetched = FALSE
  /\ genCompany = "Slideforge"
  /\ genPrefs = NoPreferences
  /\ genRisk = "medium"
  /\ genSubAllowsPromo = TRUE
  /\ genForce = FALSE
  /\ genCommenters = <<>>
  /\ mentionIndices = {}
  /\ mentionProductIndex = 0
  /\ disagreementIndex = 0
  /\ usedMockComments = {}
  /\ genComments = <<>>
  /\ genReturned = <<>>

\* generateComments is called for a slot
GenStart ==
  /\ genPc = "plan"
  /\ genMock \in BOOLEAN
  /\ genApiKey \in BOOLEAN
  /\ genFetched = FALSE
  /\ genCompany \in Companies
  /\ genPrefs \in GenerationPreferences
  /\ genRisk \in Risks
  /\ genSubAllowsPromo \in BOOLEAN
  /\ genForce \in BOOLEAN
  /\ \E n \in 0..MaxCommenters : genCommenters \in [1..n -> CommenterStyles]
  /\ mentionIndices = {}
  /\ mentionProductIndex = 0
  /\ disagreementIndex = 0
  /\ usedMockComments = {}
  /\ genComments = <<>>
  /\ genReturned = <<>>

\* Lines 238-260: which replies are to mention the product and which one is
\* to disagree.  Commenters are numbered from 1, so mentionProductIndex and
\* disagreementIndex are 0 where the code has -1.
GenPlan ==
  /\ genPc = "plan"
  /\ LET n == Len(genCommenters)
         allowProduct == allowProductIn(genPrefs, genRisk, genSubAllowsPromo)
         mentionTargetCount == IF allowProduct
                                 THEN Max2(0, genPrefs.productMentionCount)
                                 ELSE 0
         maxMentionCount == Min2(mentionTargetCount, n)
         \* shouldMentionProduct is true only if Math.random() <= 0.3 and a
         \* commenter gives answers
         mayMention == \E k \in 1..n : genCommenters[k] = "gives_answers"
     IN /\ mentionIndices' \in { S \in SUBSET (1..n) :
                                  Cardinality(S) = maxMentionCount }
        /\ mentionProductIndex' \in
             IF allowProduct /\ maxMentionCount = 0
               THEN IF genForce THEN {1}
                    ELSE {0} \cup (IF mayMention THEN 1..n ELSE {})
               ELSE {0}
        /\ disagreementIndex' \in
             IF genPrefs.requireDisagreement /\ n > 1 THEN 1..n ELSE {0}
  /\ genPc' = "loop"
  /\ UNCHANGED <<genMock, genApiKey, genCompany, genPrefs, genRisk, genSubAllowsPromo,
                 genForce, genCommenters, usedMockComments, genComments,
                 genReturned, genFetched>>
  /\ UNCHANGED otherThanGen

\* One pass of the loop over the commenters (lines 262-400): the reply is
\* generated, post-processed outside mock mode, and pushed.  Outside mock
\* mode generateWithAI answers only if it has an API key to fetch with.
GenComment ==
  /\ genPc = "loop" /\ Len(genComments) < Len(genCommenters)
  /\ genMock \/ genApiKey
  /\ genFetched' = (genFetched \/ ~genMock)
  /\ LET i == Len(genComments) + 1
     IN \E text \in IF genMock
                      THEN generateMockComment(genCommenters[i], genCompany)
                      ELSE BackendTexts :
          \E finalText \in IF genMock THEN {text}
                           ELSE postProcess(text, i, genComments, genPrefs,
                                            mentionProductIndex, mentionIndices) :
            /\ genComments' = Append(genComments,
                                     [persona |-> i, content |-> finalText])
            /\ genReturned' = Append(genReturned, text.co)
            /\ usedMockComments' = IF genMock THEN usedMockComments \cup {text.v}
                                   ELSE usedMockComments
  /\ UNCHANGED <<genPc, genMock, genApiKey, genCompany, genPrefs, genRisk,
                 genSubAllowsPromo, genForce, genCommenters, mentionIndices,
                 mentionProductIndex, disagreementIndex>>
  /\ UNCHANGED otherThanGen

\* generateWithAI fails for a reply or for the OP follow-up: generateComments
\* throws and generateThreads drops the thread
GenThrows ==
  /\ ~genMock
  /\ \/ genPc = "loop" /\ Len(genComments) < Len(genCommenters)
     \/ genPc = "loop" /\ Len(genComments) = Len(genCommenters)
        /\ Len(genComments) > 0
  /\ genPc' = "error"
  /\ genFetched' = (genFetched \/ genApiKey)
  /\ UNCHANGED <<genMock, genApiKey, genCompany, genPrefs, genRisk, genSubAllowsPromo,
                 genForce, genCommenters, mentionIndices, mentionProductIndex, disagreementIndex,
                 usedMockComments, genComments, genReturned>>
  /\ UNCHANGED otherThanGen

\* Math.random() > 0.5 and there are comments: generateOPFollowUp (persona 0
\* is the OP); outside mock mode a text naming the company is sent to
\* removeCompanyMention
GenFollowUp ==
  /\ genPc = "loop" /\ Len(genComments) = Len(genCommenters)
  /\ Len(genComments) > 0
  /\ genMock \/ genApiKey
  /\ genFetched' = (genFetched \/ ~genMock)
  /\ \E text \in IF genMock THEN {MockFollowUp} ELSE BackendTexts :
       \E finalText \in IF ~genMock /\ text.co
                          THEN removeCompanyMention(text) ELSE {text} :
         /\ genComments' = Append(genComments,
                                  [persona |-> 0, content |-> finalText])
         /\ genReturned' = Append(genReturned, text.co)
  /\ genPc' = "reconcile"
  /\ UNCHANGED <<genMock, genApiKey, genCompany, genPrefs, genRisk, genSubAllowsPromo,
                 genForce, genCommenters, mentionIndices, mentionProductIndex, disagreementIndex,
                 usedMockComments>>
  /\ UNCHANGED otherThanGen

\* no OP follow-up
GenNoFollowUp ==
  /\ genPc = "loop" /\ Len(genComments) = Len(genCommenters)
  /\ genPc' = "reconcile"
  /\ UNCHANGED <<genMock, genApiKey, genCompany, genPrefs, genRisk, genSubAllowsPromo,
                 genForce, genCommenters, mentionIndices, mentionProductIndex, disagreementIndex,
                 usedMockComments, genComments, genReturned, genFetched>>
  /\ UNCHANGED otherThanGen

\* the targets of lines 418-430: the first missingCount of the replies
\* chosen to mention the product, in the order they were drawn
mentionTargets(T) ==
  LET n == Len(genCommenters)
      allowProduct == allowProductIn(genPrefs, genRisk, genSubAllowsPromo)
      maxMentionCount == Cardinality(mentionIndices)
      mentionNeeded == IF maxMentionCount > 0 THEN maxMentionCount ELSE 1
      mentionCount == Cardinality({ k \in 1..Len(genComments) :
                                      genComments[k].content.co })
      missingCount == Max2(0, mentionNeeded - mentionCount)
      targets == IF maxMentionCount > 0 THEN mentionIndices
                 ELSE {mentionProductIndex} \ {0}
  IN IF allowProduct /\ (maxMentionCount > 0 \/ mentionProductIndex >= 1)
       THEN /\ T \subseteq targets
            /\ Cardinality(T) = Min2(missingCount, Cardinality(targets))
       ELSE T = {}

\* Lines 418-459: for each target generateWithAI is called for a reply that
\* mentions the company (also in mock mode), and fetches if it has an API
\* key; where the backend answers, the answer replaces the reply of that
\* commenter.  Then the comments are returned.
GenReconcile ==
  /\ genPc = "reconcile"
  /\ \E T \in SUBSET (1..Len(genCommenters)) :
       /\ mentionTargets(T)
       /\ genFetched' = (genFetched \/ (T # {} /\ genApiKey))
       /\ \E answered \in SUBSET (IF genApiKey THEN T ELSE {}) :
            \E answers \in [answered -> BackendTexts] :
              genComments' =
                [k \in 1..Len(genComments) |->
                   IF k \in answered
                     THEN [genComments[k] EXCEPT !.content = answers[k]]
                     ELSE genComments[k]]
  /\ genPc' = "done"
  /\ UNCHANGED <<genMock, genApiKey, genCompany, genPrefs, genRisk, genSubAllowsPromo,
                 genForce, genCommenters, mentionIndices, mentionProductIndex, disagreementIndex,
                 usedMockComments, genReturned>>
  /\ UNCHANGED otherThanGen

\* Line 431 with no commenters: the persona is undefined and
\* buildCommentPrompt throws
GenReconcileThrows ==
  /\ genPc = "reconcile"
  /\ Len(genCommenters) = 0
  /\ allowProductIn(genPrefs, genRisk, genSubAllowsPromo)
  /\ mentionProductIndex >= 1
  /\ genPc' = "error"
  /\ UNCHANGED <<genMock, genApiKey, genCompany, genPrefs, genRisk, genSubAllowsPromo,
                 genForce, genCommenters, mentionIndices, mentionProductIndex, disagreementIndex,
                 usedMockComments, genComments, genReturned, genFetched>>
  /\ UNCHANGED otherThanGen

GenNext ==
  \/ GenPlan
  \/ GenComment
  \/ GenThrows
  \/ GenFollowUp
  \/ GenNoFollowUp
  \/ GenReconcile
  \/ GenReconcileThrows

\* ============================================================ reply timing
\* Times are minutes after post.scheduledAt, which is slot.date.
DelayBounds == 0..MaxDelay

\* the timing fields of PlannerConstraints; nothing checks that a lower
\* bound is below its upper bound
TimingConstraints ==
  [minDelayAfterPostMinutes : DelayBounds,
   maxDelayAfterPostMinutes : DelayBounds,
   commentSpacingMinutes : DelayBounds \X DelayBounds,
   opFollowUpDelayMinutes : DelayBounds \X DelayBounds]

\* Math.floor(Math.random() * range): Math.random() is in [0, 1)
floorRandomTimes(range) ==
  IF range > 0 THEN 0..(range - 1) ELSE range..0

\* generateCommentDelay with the first reply timed like the later ones
generateCommentDelaySpacingOnly(index, isOPFollowUp, constraints) ==
  IF isOPFollowUp
    THEN { constraints.opFollowUpDelayMinutes[1] + f :
           f \in floorRandomTimes(constraints.opFollowUpDelayMinutes[2]
                                    - constraints.opFollowUpDelayMinutes[1]) }
    ELSE { constraints.commentSpacingMinutes[1] + f :
           f \in floorRandomTimes(constraints.commentSpacingMinutes[2]
                                    - constraints.commentSpacingMinutes[1]) }

\* generateCommentDelay: the delays it can return; index counts from 0
generateCommentDelay(index, isOPFollowUp, constraints) ==
  IF isOPFollowUp
    THEN { constraints.opFollowUpDelayMinutes[1] + f :
           f \in floorRandomTimes(constraints.opFollowUpDelayMinutes[2]
                                    - constraints.opFollowUpDelayMinutes[1]) }
  ELSE IF index = 0
    THEN { constraints.minDelayAfterPostMinutes + f :
           f \in floorRandomTimes(constraints.maxDelayAfterPostMinutes
                                    - constraints.minDelayAfterPostMinutes) }
    ELSE { constraints.commentSpacingMinutes[1] + f :
           f \in floorRandomTimes(constraints.commentSpacingMinutes[2]
                                    - constraints.commentSpacingMinutes[1]) }

\* date-fns addMinutes
addMinutes(date, amount) == date + amount

\* lastTimestamp left at the time of the post
keepPostTime(last, commentTime) == last

\* line 399: lastTimestamp = commentTime
advanceTimestamp(last, commentTime) == commentTime

\* generateComments before it is used
TimingIdle ==
  /\ tmPc = "idle"
  /\ tmCons = [minDelayAfterPostMinutes |-> 0, maxDelayAfterPostMinutes |-> 0,
               commentSpacingMinutes |-> <<0, 0>>,
               opFollowUpDelayMinutes |-> <<0, 0>>]
  /\ tmCommenters = 0
  /\ lastTimestamp = 0
  /\ tmComments = <<>>

\* line 235: let lastTimestamp = post.scheduledAt
TimingStart ==
  /\ tmPc = "loop"
  /\ tmCons \in TimingConstraints
  /\ tmCommenters \in 0..MaxCommenters
  /\ lastTimestamp = 0
  /\ tmComments = <<>>

\* lines 262-399: the delay and the time of reply i are drawn, the reply is
\* pushed and lastTimestamp moves to its time
TimingReply ==
  /\ tmPc = "loop" /\ Len(tmComments) < tmCommenters
  /\ \E delayMinutes \in generateCommentDelay(Len(tmComments), FALSE, tmCons) :
       LET commentTime == addMinutes(lastTimestamp, delayMinutes)
       IN /\ tmComments' = Append(tmComments,
                                  [scheduledAt |-> commentTime,
                                   delayMinutes |-> delayMinutes,
                                   op |-> FALSE])
          /\ lastTimestamp' = advanceTimestamp(lastTimestamp, commentTime)
  /\ UNCHANGED <<tmPc, tmCons, tmCommenters>>
  /\ UNCHANGED otherThanTiming

\* lines 403-416 and 483-519: Math.random() > 0.5 and there are comments, so
\* generateOPFollowUp times the author's reply from lastTimestamp
TimingFollowUp ==
  /\ tmPc = "loop" /\ Len(tmComments) = tmCommenters
  /\ Len(tmComments) > 0
  /\ \E delayMinutes \in generateCommentDelay(0, TRUE, tmCons) :
       tmComments' = Append(tmComments,
                            [scheduledAt |-> addMinutes(lastTimestamp, delayMinutes),
                             delayMinutes |-> delayMinutes,
                             op |-> TRUE])
  /\ tmPc' = "done"
  /\ UNCHANGED <<tmCons, tmCommenters, lastTimestamp>>
  /\ UNCHANGED otherThanTiming

\* no follow-up: the comments are returned as they are
TimingReturn ==
  /\ tmPc = "loop" /\ Len(tmComments) = tmCommenters
  /\ tmPc' = "done"
  /\ UNCHANGED <<tmCons, tmCommenters, lastTimestamp, tmComments>>
  /\ UNCHANGED otherThanTiming

TimingNext ==
  \/ TimingReply
  \/ TimingFollowUp
  \/ TimingReturn

\* =============================================================== mode flag
\* line 757
isMockEnvEnabled(env) == env

\* lines 965-967
isMockMode(flag, env) == flag \/ isMockEnvEnabled(env)

\* the argument of setMockMode as lastSet keeps it
asSet(enabled) == IF enabled THEN "true" ELSE "false"

\* the module before it is loaded
ModeIdle ==
  /\ modePc = "idle"
  /\ envMockAI = FALSE
  /\ mockMode = FALSE
  /\ lastSet = "unset"
  /\ modeReads = <<>>

\* line 959: let mockMode = isMockEnvEnabled()
ModeStart ==
  /\ modePc = "loaded"
  /\ envMockAI \in BOOLEAN
  /\ mockMode = isMockEnvEnabled(envMockAI)
  /\ lastSet = "unset"
  /\ modeReads = <<>>

\* lines 961-963: a caller sets the flag (the route handler calls it with
\* process.env.MOCK_AI === 'true', a caller of the library with any value)
SetMockMode ==
  /\ modePc = "loaded"
  /\ \E enabled \in BOOLEAN :
       /\ mockMode' = enabled
       /\ lastSet' = asSet(enabled)
  /\ UNCHANGED <<modePc, envMockAI, modeReads>>
  /\ UNCHANGED otherThanMode

\* the generator asks for the mode
IsMockMode ==
  /\ modePc = "loaded"
  /\ Len(modeReads) < MaxModeReads
  /\ modeReads' = Append(modeReads, [set |-> lastSet,
                                     got |-> isMockMode(mockMode, envMockAI)])
  /\ UNCHANGED <<modePc, envMockAI, mockMode, lastSet>>
  /\ UNCHANGED otherThanMode

ModeNext ==
  \/ SetMockMode
  \/ IsMockMode

\* ============================================================ generatePost
\* A title or a body is kept as its wording ("" is the empty or blank
\* string), whether it names the company (co) and whether it holds one of
\* preferences.bannedPhrases (bp).
PostWordings == {"", "a", "b"}

PostFields ==
  { t \in [text : PostWordings, co : BOOLEAN, bp : BOOLEAN] :
      t.text = "" => (~t.co /\ ~t.bp) }

\* a field of result.data that is not a string
NotAString == [text |-> "undefined", co |-> FALSE, bp |-> FALSE]

\* what generateWithAI can return for the post prompt
PostResults ==
  [success : BOOLEAN,
   title : PostFields \cup {NotAString},
   body : PostFields \cup {NotAString}]

NoPostResult == [success |-> FALSE, title |-> NotAString, body |-> NotAString]

\* generateMockPost: a canned title and body built from the slot's keyword
\* and subreddit; neither is empty
generateMockPost ==
  { r \in PostResults :
      /\ r.success
      /\ r.title # NotAString /\ r.title.text # "" /\ ~r.title.co
      /\ r.body # NotAString /\ r.body.text # "" /\ ~r.body.co }

\* lines 188-190: the test after which generatePost throws
invalidResponse(result) ==
  \/ ~result.success
  \/ result.title = NotAString
  \/ result.body = NotAString

\* sanitizePostTitle: a blank title becomes 'Thoughts on this?', the company
\* name becomes 'this tool', banned phrases are cut out
sanitizePostTitle(title, banned) ==
  LET next1 == IF title.text = ""
                 THEN [text |-> "Thoughts on this?", co |-> FALSE, bp |-> FALSE]
                 ELSE title
      next2 == [next1 EXCEPT !.co = FALSE]
  IN IF banned THEN [next2 EXCEPT !.bp = FALSE] ELSE next2

\* sanitizePostBody: in mock mode the trimmed body; otherwise a body that is
\* too short or too long, names the company, holds a banned phrase or misses
\* every keyword is sent to the backend for a variation, which replaces it
\* when the backend answers with a non-empty one, and a body that still names
\* the company is sent to removeCompanyMention
sanitizePostBody(body, mock) ==
  IF mock THEN {body}
  ELSE LET variations == { t \in PostFields : t.text # "" }
           afterRewrite == {body} \cup variations
       IN UNION { IF t.co THEN {t} \cup variations ELSE {t} : t \in afterRewrite }

\* generatePost before it is used
PostIdle ==
  /\ postPc = "idle"
  /\ postMock = FALSE
  /\ postBanned = FALSE
  /\ postResult = NoPostResult
  /\ postTitle = NotAString
  /\ postBody = NotAString

\* generatePost is called for a slot
PostStart ==
  /\ postPc = "generate"
  /\ postMock \in BOOLEAN
  /\ postBanned \in BOOLEAN
  /\ postResult = NoPostResult
  /\ postTitle = NotAString
  /\ postBody = NotAString

\* lines 178-184: mock mode takes generateMockPost(slot)
PostMockContent ==
  /\ postPc = "generate" /\ postMock
  /\ postResult' \in generateMockPost
  /\ postPc' = "sanitize"
  /\ UNCHANGED <<postMock, postBanned, postTitle, postBody>>
  /\ UNCHANGED otherThanPost

\* lines 185-191: live mode takes the backend's answer when it is a success
\* with a string title and a string body
PostLiveContent ==
  /\ postPc = "generate" /\ ~postMock
  /\ \E result \in PostResults :
       /\ ~invalidResponse(result)
       /\ postResult' = result
  /\ postPc' = "sanitize"
  /\ UNCHANGED <<postMock, postBanned, postTitle, postBody>>
  /\ UNCHANGED otherThanPost

\* line 189: throw new Error('AI post generation failed ...')
PostThrows ==
  /\ postPc = "generate" /\ ~postMock
  /\ \E result \in PostResults :
       /\ invalidResponse(result)
       /\ postResult' = result
  /\ postPc' = "error"
  /\ UNCHANGED <<postMock, postBanned, postTitle, postBody>>
  /\ UNCHANGED otherThanPost

\* lines 194-215: the body and the title are sanitized and the Post returned
PostReturn ==
  /\ postPc = "sanitize"
  /\ postBody' \in sanitizePostBody(postResult.body, postMock)
  /\ postTitle' = sanitizePostTitle(postResult.title, postBanned)
  /\ postPc' = "done"
  /\ UNCHANGED <<postMock, postBanned, postResult>>
  /\ UNCHANGED otherThanPost

PostNext ==
  \/ PostMockContent
  \/ PostLiveContent
  \/ PostThrows
  \/ PostReturn

\* ======================================================== post-processing
\* The post-processing of one field in one generation of a thread: the body
\* of the post in sanitizePostBody, or one reply in generateComments.  A
\* text is kept as v, its wording; co, whether it names the company; len,
\* its length against the limits of the preferences; flawed, whether it has
\* a banned phrase (for a body also: has none of the keywords).
RewriteTexts ==
  [v : 1..MaxWordings, co : BOOLEAN, len : {"short", "ok", "long"},
   flawed : BOOLEAN]

\* preferences?.minCommentLength / maxCommentLength (minPostLength /
\* maxPostLength for a body) are set or not
LengthLimits == [min : BOOLEAN, max : BOOLEAN]

tooShort(text, limits) == limits.min /\ text.len = "short"
tooLong(text, limits) == limits.max /\ text.len = "long"

\* comments.some(prev => calculateSimilarity(prev.content, finalText) > 0.5)
stillTooSimilar(prev, text) == text.v \in prev

\* isCommentLowQuality(finalText, company, preferences, chosen)
needsFix(text, limits, chosen) ==
  \/ tooShort(text, limits)
  \/ tooLong(text, limits)
  \/ text.flawed
  \/ ~chosen /\ text.co

\* what "if (revised) finalText = revised" leaves after a call of
\* generateWithAI with a variation prompt: the variation, or the text as
\* it was when the call fails
variationOf(text) == {text} \cup RewriteTexts

\* clampToLength keeps a prefix of the text that fits the limit
clampToLength(text) ==
  { [v |-> text.v, co |-> c, len |-> l, flawed |-> text.flawed] :
      c \in {text.co, FALSE}, l \in {"short", "ok"} }

\* no field is being post-processed
RewriteIdle ==
  /\ rwPc = "idle"
  /\ rwMock = FALSE
  /\ rwField = "reply"
  /\ rwLimits = [min |-> FALSE, max |-> FALSE]
  /\ rwPrev = {}
  /\ rwAllowProduct = TRUE
  /\ rwChosen = FALSE
  /\ rwText = [v |-> 1, co |-> FALSE, len |-> "ok", flawed |-> FALSE]
  /\ rwCalls = 0

\* the backend (or the mock) has returned the text of the field.  A body
\* has no previous comments and is never chosen to mention the product; a
\* reply is chosen only if the preferences allow the mention.
RewriteStart ==
  /\ rwMock \in BOOLEAN
  /\ rwField \in {"body", "reply"}
  /\ rwPc = IF rwField = "body" THEN "bodyRewrite" ELSE "similar"
  /\ rwLimits \in LengthLimits
  /\ rwPrev \in SUBSET (1..MaxWordings)
  /\ rwField = "body" => rwPrev = {}
  /\ rwAllowProduct \in BOOLEAN
  /\ rwChosen \in BOOLEAN
  /\ rwChosen => rwAllowProduct /\ rwField = "reply"
  /\ rwText \in RewriteTexts
  /\ rwCalls = 0

\* one guarded rewrite: when the guard holds outside mock mode the backend
\* is called with a variation prompt
rewriteIf(guard, to) ==
  /\ IF guard /\ ~rwMock
       THEN /\ rwText' \in variationOf(rwText)
            /\ rwCalls' = rwCalls + 1
       ELSE UNCHANGED <<rwText, rwCalls>>
  /\ rwPc' = to
  /\ UNCHANGED <<rwMock, rwField, rwLimits, rwPrev, rwAllowProduct, rwChosen>>
  /\ UNCHANGED otherThanRewrite

\* sanitizePostBody, lines 644-654
BodyRewrite ==
  /\ rwPc = "bodyRewrite"
  /\ rewriteIf(\/ tooShort(rwText, rwLimits) \/ tooLong(rwText, rwLimits)
               \/ rwText.co \/ rwText.flawed,
               "bodyRemove")

\* sanitizePostBody, lines 656-659
BodyRemoveCompany ==
  /\ rwPc = "bodyRemove"
  /\ rewriteIf(rwText.co, "clamp")

\* generateComments, lines 307-322
ReplySimilar ==
  /\ rwPc = "similar"
  /\ rewriteIf(stillTooSimilar(rwPrev, rwText), "similar2")

\* generateComments, lines 324-338
ReplyStillSimilar ==
  /\ rwPc = "similar2"
  /\ rewriteIf(stillTooSimilar(rwPrev, rwText), "quality")

\* generateComments, lines 341-355
ReplyLowQuality ==
  /\ rwPc = "quality"
  /\ rewriteIf(needsFix(rwText, rwLimits, rwChosen), "removal")

\* generateComments, lines 357-366
ReplyRemoveCompany ==
  /\ rwPc = "removal"
  /\ rewriteIf(~rwAllowProduct /\ rwText.co /\ ~rwChosen, "length")

\* generateComments, lines 368-382
ReplyLengthOrSimilar ==
  /\ rwPc = "length"
  /\ rewriteIf(\/ tooShort(rwText, rwLimits) \/ tooLong(rwText, rwLimits)
               \/ stillTooSimilar(rwPrev, rwText),
               "clamp")

\* the closing clampToLength of both (lines 661-663 and 384-386); the field
\* is then returned or pushed
RewriteClamp ==
  /\ rwPc = "clamp"
  /\ rwText' \in IF tooLong(rwText, rwLimits)
                   THEN clampToLength(rwText) ELSE {rwText}
  /\ rwPc' = "done"
  /\ UNCHANGED <<rwMock, rwField, rwLimits, rwPrev, rwAllowProduct, rwChosen,
                 rwCalls>>
  /\ UNCHANGED otherThanRewrite

RewriteNext ==
  \/ BodyRewrite
  \/ BodyRemoveCompany
  \/ ReplySimilar
  \/ ReplyStillSimilar
  \/ ReplyLowQuality
  \/ ReplyRemoveCompany
  \/ ReplyLengthOrSimilar
  \/ RewriteClamp

\* ============================================================ backend call
\* A live run of generateThreads, with each call of generateWithAI taken
\* apart: the request is sent with fetch, fetch settles when the provider
\* answers or the connection fails, and the answer is turned into a
\* GenerationResult.  The thread of a slot needs the call of generatePost
\* and one call of generateComments for each commenter.
Providers == {"cerebras", "gemini", "ollama"}

\* What fetch can settle with: a rejection, or a response with a status and
\* a content.  The content is absent, or a text: "json" is a JSON object,
\* "fenced" one inside ``` fences, "wrapped" one with prose around it,
\* "prose" has no object.  shapeOk: the object has the fields the caller
\* asks for as strings.
FetchOutcomes ==
  {[rejected |-> TRUE, ok |-> FALSE, text |-> "none", shapeOk |-> FALSE]}
  \cup [rejected : {FALSE}, ok : BOOLEAN,
        text : {"none", "json", "fenced", "wrapped", "prose"},
        shapeOk : BOOLEAN]

NoOutcome == [rejected |-> FALSE, ok |-> FALSE, text |-> "none", shapeOk |-> FALSE]

NoResult == [success |-> FALSE, data |-> "none", error |-> "none"]

\* safeParseJSON: the fences are stripped and the text is parsed; failing
\* that, the part from the first { to the last } is parsed
safeParseJSON(text, shapeOk) ==
  IF text \in {"json", "fenced", "wrapped"}
    THEN IF shapeOk THEN "object" ELSE "otherObject"
    ELSE "null"

\* the GenerationResult generateWithAI makes of what fetch settled with
resultOf(outcome) ==
  CASE outcome.rejected ->
         [success |-> FALSE, data |-> "none", error |-> "thrown"]
    [] ~outcome.ok ->
         [success |-> FALSE, data |-> "none", error |-> "status"]
    [] outcome.text = "none" ->
         [success |-> FALSE, data |-> "none",
          error |-> "No content in LLM response"]
    [] safeParseJSON(outcome.text, outcome.shapeOk) = "null" ->
         [success |-> FALSE, data |-> "none",
          error |-> "Failed to parse JSON response"]
    [] OTHER ->
         [success |-> TRUE,
          data |-> safeParseJSON(outcome.text, outcome.shapeOk),
          error |-> "none"]

\* !result.success || !result.data || typeof result.data.<field> !== 'string'
callerThrows(result) == ~result.success \/ result.data # "object"

\* no run
BackendIdle ==
  /\ aiPc = "idle"
  /\ aiProvider = "gemini"
  /\ aiKey = FALSE
  /\ aiSlots = 0
  /\ aiCommenters = 0
  /\ aiIdx = 0
  /\ aiCallsLeft = 0
  /\ aiResponse = NoOutcome
  /\ aiResult = NoResult
  /\ aiThreads = <<>>
  /\ aiErrors = <<>>

\* generateThreads is called outside mock mode with at least one slot and
\* is about to generate the post of the first
BackendStart ==
  /\ aiPc = "call"
  /\ aiProvider \in Providers
  /\ aiKey \in BOOLEAN
  /\ aiSlots \in 1..MaxBatchSlots
  /\ aiCommenters \in 0..MaxCommenters
  /\ aiIdx = 1
  /\ aiCallsLeft = 1 + aiCommenters
  /\ aiResponse = NoOutcome
  /\ aiResult = NoResult
  /\ aiThreads = <<>>
  /\ aiErrors = <<>>

\* generateWithAI returns without a request: the provider is ollama, or
\* get...Config throws for want of an API key and the catch returns
GenerateWithAINoFetch ==
  /\ aiPc = "call"
  /\ aiProvider = "ollama" \/ ~aiKey
  /\ aiResult' = [success |-> FALSE, data |-> "none",
                  error |-> IF aiProvider = "ollama"
                              THEN "LLM_PROVIDER=ollama is not supported yet"
                              ELSE "thrown"]
  /\ aiPc' = "result"
  /\ UNCHANGED <<aiProvider, aiKey, aiSlots, aiCommenters, aiIdx, aiCallsLeft,
                 aiResponse, aiThreads, aiErrors>>
  /\ UNCHANGED otherThanBackend

\* await fetch(...): the request is sent, with no signal and no timer, and
\* generateWithAI is suspended
Fetch ==
  /\ aiPc = "call"
  /\ aiProvider # "ollama" /\ aiKey
  /\ aiPc' = "waiting"
  /\ UNCHANGED <<aiProvider, aiKey, aiSlots, aiCommenters, aiIdx, aiCallsLeft,
                 aiResponse, aiResult, aiThreads, aiErrors>>
  /\ UNCHANGED otherThanBackend

\* the provider answers or the connection fails: fetch settles
FetchSettles ==
  /\ aiPc = "waiting"
  /\ aiResponse' \in FetchOutcomes
  /\ aiPc' = "settled"
  /\ UNCHANGED <<aiProvider, aiKey, aiSlots, aiCommenters, aiIdx, aiCallsLeft,
                 aiResult, aiThreads, aiErrors>>
  /\ UNCHANGED otherThanBackend

\* generateWithAI resumes and returns its GenerationResult
GenerateWithAIReturns ==
  /\ aiPc = "settled"
  /\ aiResult' = resultOf(aiResponse)
  /\ aiPc' = "result"
  /\ UNCHANGED <<aiProvider, aiKey, aiSlots, aiCommenters, aiIdx, aiCallsLeft,
                 aiResponse, aiThreads, aiErrors>>
  /\ UNCHANGED otherThanBackend

\* the caller throws on the result; generateThreads catches, pushes the
\* error and goes on with the next slot
SlotFails ==
  /\ aiPc = "result"
  /\ callerThrows(aiResult)
  /\ aiErrors' = Append(aiErrors, aiIdx)
  /\ aiIdx' = aiIdx + 1
  /\ aiCallsLeft' = 1 + aiCommenters
  /\ aiPc' = IF aiIdx = aiSlots THEN "done" ELSE "call"
  /\ UNCHANGED <<aiProvider, aiKey, aiSlots, aiCommenters, aiResponse,
                 aiResult, aiThreads>>
  /\ UNCHANGED otherThanBackend

\* the caller takes the text and the thread goes on to its next call
NextCall ==
  /\ aiPc = "result"
  /\ ~callerThrows(aiResult)
  /\ aiCallsLeft > 1
  /\ aiCallsLeft' = aiCallsLeft - 1
  /\ aiPc' = "call"
  /\ UNCHANGED <<aiProvider, aiKey, aiSlots, aiCommenters, aiIdx, aiResponse,
                 aiResult, aiThreads, aiErrors>>
  /\ UNCHANGED otherThanBackend

\* the caller takes the text of the last call: the thread is pushed and
\* generateThreads goes on with the next slot
SlotDone ==
  /\ aiPc = "result"
  /\ ~callerThrows(aiResult)
  /\ aiCallsLeft = 1
  /\ aiThreads' = Append(aiThreads, aiIdx)
  /\ aiIdx' = aiIdx + 1
  /\ aiCallsLeft' = 1 + aiCommenters
  /\ aiPc' = IF aiIdx = aiSlots THEN "done" ELSE "call"
  /\ UNCHANGED <<aiProvider, aiKey, aiSlots, aiCommenters, aiResponse,
                 aiResult, aiErrors>>
  /\ UNCHANGED otherThanBackend

\* the steps the JavaScript runtime takes on its own: a continuation that
\* is ready is run
ProgramStep ==
  \/ GenerateWithAINoFetch
  \/ Fetch
  \/ GenerateWithAIReturns
  \/ SlotFails
  \/ NextCall
  \/ SlotDone

BackendNext ==
  \/ GenerateWithAINoFetch
  \/ Fetch
  \/ FetchSettles
  \/ GenerateWithAIReturns
  \/ SlotFails
  \/ NextCall
  \/ SlotDone

\* ======================================================== generateThreads
\* The loop of generateThreads over the slots.  In live mode generateThread
\* rejects when generateWithAI does not give the expected shape (generatePost
\* and generateComments throw); the catch of the loop records the error.
\* (In mock mode generateThread rejects only for a slot without commenters,
\* see GenReconcileThrows; such slots are not part of these batches.)

\* the batch loop before it is used
ThreadsIdle ==
  /\ gtPc = "idle"
  /\ gtMock = FALSE
  /\ gtSlots = 0
  /\ gtIdx = 0
  /\ gtThreads = <<>>
  /\ gtErrors = <<>>

\* generateThreads is called with gtSlots slots
ThreadsStart ==
  /\ gtPc = "loop"
  /\ gtMock \in BOOLEAN
  /\ gtSlots \in 0..MaxBatchSlots
  /\ gtIdx = 0
  /\ gtThreads = <<>>
  /\ gtErrors = <<>>

\* generateThread resolves for the next slot: the thread is pushed
GenerateThread ==
  /\ gtPc = "loop" /\ gtIdx < gtSlots
  /\ gtIdx' = gtIdx + 1
  /\ gtThreads' = Append(gtThreads, gtIdx + 1)
  /\ UNCHANGED <<gtPc, gtMock, gtSlots, gtErrors>>
  /\ UNCHANGED otherThanThreads

\* generateThread rejects for the next slot: the error is pushed and the
\* loop goes on
GenerateThreadFails ==
  /\ gtPc = "loop" /\ gtIdx < gtSlots
  /\ ~gtMock
  /\ gtIdx' = gtIdx + 1
  /\ gtErrors' = Append(gtErrors, gtIdx + 1)
  /\ UNCHANGED <<gtPc, gtMock, gtSlots, gtThreads>>
  /\ UNCHANGED otherThanThreads

\* the loop is over: threads and metadata.errors are returned
GenerateThreadsReturn ==
  /\ gtPc = "loop" /\ gtIdx = gtSlots
  /\ gtPc' = "done"
  /\ UNCHANGED <<gtMock, gtSlots, gtIdx, gtThreads, gtErrors>>
  /\ UNCHANGED otherThanThreads

ThreadsNext ==
  \/ GenerateThread
  \/ GenerateThreadFails
  \/ GenerateThreadsReturn

\* ======================================================== quality checker
\* A text is kept as the facts the checker reads from it: words (the set of
\* its words longer than 3 letters, for calculateSimilarity), len (its
\* length, the text having no white space around it), co (it contains the
\* company name; titleCo and bodyCo for the two texts of a post), promo (how
\* many of the promotional phrases it contains), positive (it matches
\* love|amazing|great|perfect|excellent) and nuance: "plain" if it matches
\* but|though|however|not sure|depends|maybe, "weak" if it only matches
\* counterpoint|not necessarily, "none" otherwise.
PostTexts ==
  << [words |-> {1, 2}, len |-> 120, titleCo |-> FALSE, bodyCo |-> FALSE,
      promo |-> 0],
     [words |-> {1, 2}, len |-> 30, titleCo |-> FALSE, bodyCo |-> FALSE,
      promo |-> 0],
     [words |-> {3}, len |-> 600, titleCo |-> TRUE, bodyCo |-> TRUE,
      promo |-> 1],
     [words |-> {1, 2, 3}, len |-> 60, titleCo |-> FALSE, bodyCo |-> FALSE,
      promo |-> 0],
     [words |-> {7}, len |-> 5, titleCo |-> FALSE, bodyCo |-> FALSE,
      promo |-> 0] >>

CommentTexts ==
  << [words |-> {4}, len |-> 80, co |-> FALSE, promo |-> 0,
      positive |-> FALSE, nuance |-> "plain"],
     [words |-> {4}, len |-> 10, co |-> FALSE, promo |-> 0,
      positive |-> TRUE, nuance |-> "none"],
     [words |-> {5}, len |-> 60, co |-> TRUE, promo |-> 1,
      positive |-> TRUE, nuance |-> "none"],
     [words |-> {6}, len |-> 80, co |-> FALSE, promo |-> 0,
      positive |-> FALSE, nuance |-> "weak"] >>

\* The threads a batch is made of: subreddit, day of scheduledAt, OP
\* persona, post text, and for each comment its persona, text and
\* delayMinutes.  The post id of a thread is its index in the batch.
ThreadShapes ==
  { [sub |-> 1, day |-> 1, op |-> 1, post |-> 1,
     comments |-> << [persona |-> 2, text |-> 1, delayMinutes |-> 30],
                     [persona |-> 3, text |-> 4, delayMinutes |-> 45] >>],
    [sub |-> 1, day |-> 1, op |-> 1, post |-> 2,
     comments |-> << [persona |-> 2, text |-> 2, delayMinutes |-> 3],
                     [persona |-> 2, text |-> 2, delayMinutes |-> 2] >>],
    [sub |-> 2, day |-> 1, op |-> 2, post |-> 3,
     comments |-> << [persona |-> 1, text |-> 3, delayMinutes |-> 20],
                     [persona |-> 3, text |-> 3, delayMinutes |-> 200] >>],
    [sub |-> 2, day |-> 1, op |-> 3, post |-> 4, comments |-> <<>>],
    [sub |-> 1, day |-> 2, op |-> 1, post |-> 5,
     comments |-> << [persona |-> 2, text |-> 1, delayMinutes |-> 60] >>] }

\* the subreddits of the company, with their rules
QualitySubreddits ==
  << [name |-> "r/PowerPoint", sensitivity |-> "medium", hasRules |-> FALSE,
      maxPostsPerDay |-> 0, allowsSelfPromotion |-> TRUE],
     [name |-> "r/consulting", sensitivity |-> "high", hasRules |-> TRUE,
      maxPostsPerDay |-> 1, allowsSelfPromotion |-> FALSE] >>

\* DEFAULT_CONSTRAINTS, the fields the checker reads
DefaultQualityConstraints ==
  [maxPostsPerSubredditPerWeek |-> 2, minDaysBetweenSubredditPosts |-> 3,
   maxPromoScoreAllowed |-> 6, maxPostsPerPersonaPerWeek |-> 2]

\* The configurations: subreddits given or not, antiPromoChecks, and
\* previousWeeks empty or one week in which each subreddit had 3 posts.
QualityConfigs ==
  [subredditsGiven : BOOLEAN, antiPromoChecks : BOOLEAN,
   previousWeek : BOOLEAN]

\* calculateSimilarity(a, b) >= num / den, for word sets a and b
simAtLeast(a, b, num, den) ==
  /\ a # {} /\ b # {}
  /\ den * Cardinality(a \cap b) >= num * Cardinality(a \cup b)

\* calculateSimilarity(a, b) > num / den
simAbove(a, b, num, den) ==
  /\ a # {} /\ b # {}
  /\ den * Cardinality(a \cap b) > num * Cardinality(a \cup b)

\* the indices of the threads that satisfy a test given as a set
threadsIn(S) == SortedSeq(S)

effectiveConstraints(sub, cfg) ==
  IF cfg.subredditsGiven
    THEN getSubredditConstraints(QualitySubreddits[sub], DefaultQualityConstraints)
    ELSE DefaultQualityConstraints

checkOverposting(threads, cfg) ==
  LET subs == uniqueInOrder([i \in 1..Len(threads) |-> threads[i].sub])
      postIds(sub) == threadsIn({ i \in 1..Len(threads) : threads[i].sub = sub })
      one(sub) ==
        IF Len(postIds(sub))
             > effectiveConstraints(sub, cfg).maxPostsPerSubredditPerWeek
          THEN << [type |-> "overposting", severity |-> "high",
                   affectedPostIds |-> postIds(sub)] >>
          ELSE <<>>
  IN Concat([k \in 1..Len(subs) |-> one(subs[k])])

checkDuplication(threads) ==
  LET pairs == OrderedPairs(Len(threads))
      words(i) == PostTexts[threads[i].post].words
      one(pr) ==
        IF simAtLeast(words(pr[1]), words(pr[2]), 1, 2)
          THEN << [type |-> "duplication",
                   severity |-> IF simAbove(words(pr[1]), words(pr[2]), 4, 5)
                                  THEN "high" ELSE "medium",
                   affectedPostIds |-> <<pr[1], pr[2]>>] >>
          ELSE <<>>
  IN Concat([k \in 1..Len(pairs) |-> one(pairs[k])])

\* the pairing key of every comment not written by the OP, with its thread
interactions(threads) ==
  Concat([i \in 1..Len(threads) |->
            LET cs == SelectSeq(threads[i].comments,
                                LAMBDA c : c.persona # threads[i].op)
            IN [k \in 1..Len(cs) |->
                  [key |-> createPairingKey(threads[i].op, cs[k].persona),
                   post |-> i]]])

checkPersonaCollisions(threads) ==
  LET all == interactions(threads)
      keys == uniqueInOrder([k \in 1..Len(all) |-> all[k].key])
      of(key) == SelectSeq(all, LAMBDA x : x.key = key)
      one(key) ==
        IF Len(of(key)) > 2
          THEN << [type |-> "persona_collision", severity |-> "medium",
                   affectedPostIds |->
                     uniqueInOrder([k \in 1..Len(of(key)) |-> of(key)[k].post])] >>
          ELSE <<>>
  IN Concat([k \in 1..Len(keys) |-> one(keys[k])])

checkTimingIssues(threads) ==
  LET one(i) ==
        LET cs == threads[i].comments
            first == IF Len(cs) > 0 /\ cs[1].delayMinutes < 10
                       THEN << [type |-> "timing_issue", severity |-> "medium",
                                affectedPostIds |-> <<i>>] >>
                       ELSE <<>>
            later == Concat([k \in 1..Len(cs) |->
                       IF k > 1 /\ cs[k].delayMinutes < 5
                         THEN << [type |-> "timing_issue", severity |-> "low",
                                  affectedPostIds |-> <<i>>] >>
                         ELSE <<>>])
        IN first \o later
  IN Concat([i \in 1..Len(threads) |-> one(i)])

checkPersonaBalance(threads) ==
  LET personas == uniqueInOrder([i \in 1..Len(threads) |-> threads[i].op])
      postIds(p) == threadsIn({ i \in 1..Len(threads) : threads[i].op = p })
      limit == DefaultQualityConstraints.maxPostsPerPersonaPerWeek
      \* count > avg + 1, avg being Len(threads) / Len(personas)
      one(p) ==
        IF \/ Len(postIds(p)) > limit
           \/ Len(postIds(p)) * Len(personas) > Len(threads) + Len(personas)
          THEN << [type |-> "persona_collision", severity |-> "low",
                   affectedPostIds |-> postIds(p)] >>
          ELSE <<>>
  IN Concat([k \in 1..Len(personas) |-> one(personas[k])])

\* the thread mentions the company in its title, body or comments
mentionsCompany(t) ==
  \/ PostTexts[t.post].titleCo \/ PostTexts[t.post].bodyCo
  \/ \E k \in 1..Len(t.comments) : CommentTexts[t.comments[k].text].co

checkSubredditRules(threads, cfg) ==
  LET forSub(sub) == threadsIn({ i \in 1..Len(threads) : threads[i].sub = sub })
      perDay(sub) ==
        LET ids == forSub(sub)
            days == uniqueInOrder([k \in 1..Len(ids) |-> threads[ids[k]].day])
            onDay(d) == SelectSeq(ids, LAMBDA i : threads[i].day = d)
        IN Concat([k \in 1..Len(days) |->
             IF Len(onDay(days[k])) > QualitySubreddits[sub].maxPostsPerDay
               THEN << [type |-> "overposting", severity |-> "medium",
                        affectedPostIds |-> onDay(days[k])] >>
               ELSE <<>>])
      promo(sub) ==
        LET ids == forSub(sub)
        IN Concat([k \in 1..Len(ids) |->
             IF mentionsCompany(threads[ids[k]])
               THEN << [type |-> "promo_sensitivity", severity |-> "medium",
                        affectedPostIds |-> <<ids[k]>>] >>
               ELSE <<>>])
      one(sub) ==
        IF ~QualitySubreddits[sub].hasRules THEN <<>>
        ELSE (IF QualitySubreddits[sub].maxPostsPerDay > 0
                THEN perDay(sub) ELSE <<>>)
             \o (IF ~QualitySubreddits[sub].allowsSelfPromotion
                   THEN promo(sub) ELSE <<>>)
  IN IF ~cfg.subredditsGiven THEN <<>>
     ELSE Concat([sub \in 1..Len(QualitySubreddits) |-> one(sub)])

checkRepetitiveLanguage(threads) ==
  LET one(i) ==
        LET cs == threads[i].comments
            pairs == OrderedPairs(Len(cs))
        IN Concat([k \in 1..Len(pairs) |->
             IF simAtLeast(CommentTexts[cs[pairs[k][1]].text].words,
                           CommentTexts[cs[pairs[k][2]].text].words, 7, 10)
               THEN << [type |-> "duplication", severity |-> "low",
                        affectedPostIds |-> <<i>>] >>
               ELSE <<>>])
  IN Concat([i \in 1..Len(threads) |-> one(i)])

\* A warning is kept as the facts its text is built from (kind and title)
\* and posts, the threads the check files it under in its warningsByPostId.
warningText(w) == [kind |-> w.kind, title |-> w.title]

checkOverAgreement(threads) ==
  Concat([i \in 1..Len(threads) |->
    IF /\ Len(threads[i].comments) >= 2
       /\ \A k \in 1..Len(threads[i].comments) :
            CommentTexts[threads[i].comments[k].text].nuance = "none"
      THEN << [kind |-> "uniform agreement", title |-> threads[i].post,
               posts |-> <<i>>] >>
      ELSE <<>>])

checkLowEffortContent(threads) ==
  Concat([i \in 1..Len(threads) |->
    (IF PostTexts[threads[i].post].len < 40
       THEN << [kind |-> "feels short", title |-> threads[i].post,
                posts |-> <<i>>] >>
       ELSE <<>>)
    \o (IF Len(SelectSeq(threads[i].comments,
                         LAMBDA c : CommentTexts[c.text].len < 25)) >= 2
          THEN << [kind |-> "low-effort comments", title |-> threads[i].post,
                   posts |-> <<i>>] >>
          ELSE <<>>)])

checkSubredditSaturation(threads, cfg) ==
  LET subs == uniqueInOrder([i \in 1..Len(threads) |-> threads[i].sub])
      postIds(sub) == threadsIn({ i \in 1..Len(threads) : threads[i].sub = sub })
      recentCount == 3
      maxPerWeek == DefaultQualityConstraints.maxPostsPerSubredditPerWeek
  IN IF ~cfg.previousWeek THEN <<>>
     ELSE Concat([k \in 1..Len(subs) |->
            IF Len(postIds(subs[k])) + recentCount > maxPerWeek * 2
              THEN << [kind |-> "saturated", title |-> subs[k],
                       posts |-> postIds(subs[k])] >>
              ELSE <<>>])

promoScore(t) ==
  LET post == PostTexts[t.post]
      cs == t.comments
  IN (IF post.titleCo THEN 4 ELSE 0) + (IF post.bodyCo THEN 4 ELSE 0)
     + post.promo
     + SumSeq([k \in 1..Len(cs) |->
                 (IF CommentTexts[cs[k].text].co THEN 4 ELSE 0)
                   + CommentTexts[cs[k].text].promo])
     + (IF Len(SelectSeq(cs, LAMBDA c : CommentTexts[c.text].positive)) >= 2
          THEN 2 ELSE 0)
     + (IF /\ Len(cs) > 1
           /\ \A k \in 1..Len(cs) : CommentTexts[cs[k].text].nuance # "plain"
          THEN 1 ELSE 0)

\* the issues and the warnings of checkPromotionalContent
checkPromotionalContent(threads, cfg) ==
  LET allowed(i) == effectiveConstraints(threads[i].sub, cfg).maxPromoScoreAllowed
  IN [issues |->
        Concat([i \in 1..Len(threads) |->
          IF promoScore(threads[i]) > allowed(i)
            THEN << [type |-> "promo_sensitivity",
                     severity |-> IF promoScore(threads[i]) > 8
                                    THEN "high" ELSE "medium",
                     affectedPostIds |-> <<i>>] >>
            ELSE <<>>]),
      warnings |->
        Concat([i \in 1..Len(threads) |->
          IF promoScore(threads[i]) <= allowed(i) /\ promoScore(threads[i]) > 4
            THEN << [kind |-> "may seem promotional", title |-> threads[i].post,
                     posts |-> <<i>>] >>
            ELSE <<>>])]

\* the words each persona wrote, the personas in the order they appear
checkVoiceConsistency(threads) ==
  LET authors == uniqueInOrder(Concat([i \in 1..Len(threads) |->
                   <<threads[i].op>>
                     \o [k \in 1..Len(threads[i].comments) |->
                           threads[i].comments[k].persona]]))
      content(p) ==
        UNION { (IF threads[i].op = p
                   THEN PostTexts[threads[i].post].words ELSE {})
                \cup UNION { CommentTexts[threads[i].comments[k].text].words :
                               k \in { c \in 1..Len(threads[i].comments) :
                                         threads[i].comments[c].persona = p } } :
                i \in 1..Len(threads) }
      pairs == OrderedPairs(Len(authors))
  IN [issues |->
        Concat([k \in 1..Len(pairs) |->
          IF simAbove(content(authors[pairs[k][1]]),
                      content(authors[pairs[k][2]]), 1, 2)
            THEN << [type |-> "voice_inconsistency", severity |-> "medium",
                     affectedPostIds |-> <<>>] >>
            ELSE <<>>]),
      suggestions |->
        IF Len(authors) < 3
          THEN <<"Consider using more personas for variety">> ELSE <<>>]

\* calculateOverallScore before Math.max(0, Math.min(10, .)), in tenths
rawOverallScore(issues, warnings, threadCount) ==
  100
  - SumSeq([k \in 1..Len(issues) |->
              CASE issues[k].severity = "high" -> 20
                [] issues[k].severity = "medium" -> 10
                [] OTHER -> 5])
  - 3 * Len(warnings)
  + (IF threadCount >= 3 THEN 5 ELSE 0)

\* the score returned as computed, without the clamp
unclamped(x) == x

\* Math.max(0, Math.min(10, x)), in tenths
clampScore(x) == Max2(0, Min2(100, x))

calculateOverallScore(issues, warnings, threadCount) ==
  clampScore(rawOverallScore(issues, warnings, threadCount))

\* the issues that name post id in their affectedPostIds
issuesNaming(issues, id) ==
  SelectSeq(issues, LAMBDA x : id \in Range(x.affectedPostIds))

\* the warnings filed under post id
warningsNaming(warnings, id) ==
  SelectSeq(warnings, LAMBDA w : id \in Range(w.posts))

mergeWarningsByPostId(warnings, n) ==
  LET flagged == { i \in 1..n :
                     \E k \in 1..Len(warnings) : i \in Range(warnings[k].posts) }
      of(i) == warningsNaming(warnings, i)
  IN [i \in flagged |->
        uniqueInOrder([k \in 1..Len(of(i)) |-> warningText(of(i)[k])])]

suggestionFor(issue) ==
  CASE issue.type = "overposting" ->
         "Reduce frequency in this subreddit or space posts further apart."
    [] issue.type = "duplication" ->
         "Rewrite to introduce a distinct angle or new details."
    [] issue.type = "persona_collision" ->
         "Rotate personas or reduce repeat interactions."
    [] issue.type = "timing_issue" ->
         "Increase delays between comments to look organic."
    [] issue.type = "promo_sensitivity" ->
         "Remove product mentions and soften promotional language."
    [] OTHER -> "Vary tone and voice between personas."

buildSuggestionsByPost(issues, warningsByPostId, n) ==
  LET ofIssues(i) ==
        LET mine == issuesNaming(issues, i)
        IN [k \in 1..Len(mine) |-> suggestionFor(mine[k])]
      ofWarnings(i) ==
        IF i \in DOMAIN warningsByPostId /\ Len(warningsByPostId[i]) > 0
          THEN <<"Add nuance or a contrasting viewpoint to avoid over-agreement.">>
          ELSE <<>>
      keyed == { i \in 1..n : ofIssues(i) \o ofWarnings(i) # <<>> }
  IN [i \in keyed |-> uniqueInOrder(ofIssues(i) \o ofWarnings(i))]

\* const issues: QualityIssue[] = [] kept at module level: a run starts
\* with the issues of the run before
moduleLevelIssues ==
  IF qReports = <<>> THEN <<>> ELSE qReports[Len(qReports)].issues

\* const issues: QualityIssue[] = [], local to checkQuality
localIssues == <<>>

\* the report of checkQuality
checkQuality(threads, cfg) ==
  LET promoCheck == IF cfg.antiPromoChecks
                      THEN checkPromotionalContent(threads, cfg)
                      ELSE [issues |-> <<>>, warnings |-> <<>>]
      voiceCheck == checkVoiceConsistency(threads)
      issues == localIssues
                \o checkOverposting(threads, cfg)
                \o checkDuplication(threads)
                \o checkPersonaCollisions(threads)
                \o checkTimingIssues(threads)
                \o checkPersonaBalance(threads)
                \o checkSubredditRules(threads, cfg)
                \o checkRepetitiveLanguage(threads)
                \o promoCheck.issues
                \o voiceCheck.issues
      warnings == checkOverAgreement(threads)
                  \o checkLowEffortContent(threads)
                  \o checkSubredditSaturation(threads, cfg)
                  \o promoCheck.warnings
      overallScore == calculateOverallScore(issues, warnings, Len(threads))
      suggestions ==
        voiceCheck.suggestions
        \o (IF overallScore < 70
              THEN <<"Consider reviewing threads with low scores before approval">>
              ELSE <<>>)
        \o (IF Len(threads) < 3
              THEN <<"Adding more posts per week could improve visibility">>
              ELSE <<>>)
      flagged == { i \in 1..Len(threads) :
                     \E k \in 1..Len(issues) : i \in Range(issues[k].affectedPostIds) }
      warningsByPostId ==
        mergeWarningsByPostId(promoCheck.warnings
                              \o checkOverAgreement(threads)
                              \o checkLowEffortContent(threads)
                              \o checkSubredditSaturation(threads, cfg),
                              Len(threads))
  IN [overallScore |-> overallScore,
      issues |-> issues,
      warnings |-> [k \in 1..Len(warnings) |-> warningText(warnings[k])],
      suggestions |-> suggestions,
      issuesByPostId |->
        [i \in flagged |-> issuesNaming(issues, i)],
      warningsByPostId |-> warningsByPostId,
      suggestionsByPostId |->
        buildSuggestionsByPost(issues, warningsByPostId, Len(threads))]

\* scoreThread, score and breakdown in tenths
scoreThread(t) ==
  LET postLength == PostTexts[t.post].len
      commentCount == Len(t.comments)
      hasDirectMention ==
        \/ PostTexts[t.post].bodyCo
        \/ \E k \in 1..commentCount : CommentTexts[t.comments[k].text].co
      delaySum == SumSeq([k \in 1..commentCount |-> t.comments[k].delayMinutes])
      divisor == Max2(commentCount, 1)
      breakdown ==
        [naturalness |-> IF postLength >= 50 /\ postLength <= 500 THEN 25
                         ELSE IF postLength > 10 THEN 15 ELSE 0,
         engagement |-> IF commentCount >= 2 /\ commentCount <= 4 THEN 25
                        ELSE IF commentCount >= 1 THEN 15 ELSE 0,
         subtlety |-> IF ~hasDirectMention THEN 25 ELSE 10,
         timing |-> IF delaySum >= 30 * divisor /\ delaySum <= 120 * divisor
                      THEN 25
                    ELSE IF delaySum >= 15 * divisor THEN 15 ELSE 0]
  IN [score |-> breakdown.naturalness + breakdown.engagement
                  + breakdown.subtlety + breakdown.timing,
      breakdown |-> breakdown]

\* the checker before it is used
QualityIdle ==
  /\ qPc = "idle"
  /\ qThreads = <<>>
  /\ qConfig = [subredditsGiven |-> FALSE, antiPromoChecks |-> TRUE,
                previousWeek |-> FALSE]
  /\ qReports = <<>>
  /\ qScores = <<>>

\* a batch of threads and a configuration are at hand
QualityStart ==
  /\ qPc = "run"
  /\ \E n \in 0..MaxThreads : qThreads \in [1..n -> ThreadShapes]
  /\ qConfig \in QualityConfigs
  /\ qReports = <<>>
  /\ qScores = <<>>

\* checkQuality is called on the threads; it leaves them as they are
CheckQuality ==
  /\ qPc = "run" /\ Len(qReports) < MaxChecks
  /\ qReports' = Append(qReports, checkQuality(qThreads, qConfig))
  /\ UNCHANGED <<qPc, qThreads, qConfig, qScores>>
  /\ UNCHANGED otherThanQuality

\* scoreThread is called on the next thread
ScoreThread ==
  /\ qPc = "run" /\ Len(qScores) < Len(qThreads)
  /\ qScores' = Append(qScores, scoreThread(qThreads[Len(qScores) + 1]))
  /\ UNCHANGED <<qPc, qThreads, qConfig, qReports>>
  /\ UNCHANGED otherThanQuality

QualityNext ==
  \/ CheckQuality
  \/ ScoreThread

\* =============================================================== pipeline
\* the personas counts a request is given
PipePersonaCounts == {1, 2}

\* The requests.  companyOk: the company has an id and a name; personasOk:
\* every persona has id, username and bio; dateOk: weekStartDate is a
\* valid Date.
PlannerInputs ==
  [companyOk : BOOLEAN, personas : PipePersonaCounts, personasOk : BOOLEAN,
   subreddits : 0..MaxVenues, keywords : 0..1, postsPerWeek : 0..MaxPosts,
   dateOk : BOOLEAN, riskTolerance : {"low", "medium", "high"},
   autoRepair : BOOLEAN, repairPasses : 1..MaxRepairPasses]

\* DEFAULT_CONSTRAINTS, the fields applyRiskTolerance changes
DefaultPipeConstraints ==
  [maxPostsPerSubredditPerWeek |-> 2, maxPromoScoreAllowed |-> 6,
   maxCommentsPerPersonaPerWeek |-> 6]

applyRiskTolerance(constraints, riskTolerance) ==
  CASE riskTolerance = "medium" -> constraints
    [] riskTolerance = "low" ->
         [maxPostsPerSubredditPerWeek |->
            Max2(1, constraints.maxPostsPerSubredditPerWeek - 1),
          maxPromoScoreAllowed |-> Max2(2, constraints.maxPromoScoreAllowed - 1),
          maxCommentsPerPersonaPerWeek |->
            Max2(1, constraints.maxCommentsPerPersonaPerWeek - 1)]
    [] OTHER ->
         [maxPostsPerSubredditPerWeek |->
            constraints.maxPostsPerSubredditPerWeek + 1,
          maxPromoScoreAllowed |-> constraints.maxPromoScoreAllowed + 1,
          maxCommentsPerPersonaPerWeek |->
            constraints.maxCommentsPerPersonaPerWeek + 1]

\* validateInput without the test of postsPerWeek against the capacity
validateInputNoCapacity(input, constraints) ==
  (IF ~input.companyOk THEN {"Company must have id and name"} ELSE {})
  \cup (IF input.personas < 2 THEN {"At least 2 personas are required"} ELSE {})
  \cup (IF ~input.personasOk THEN {"Persona missing required fields"} ELSE {})
  \cup (IF input.subreddits = 0 THEN {"At least 1 subreddit is required"} ELSE {})
  \cup (IF input.keywords = 0 THEN {"At least 1 keyword is required"} ELSE {})
  \cup (IF input.postsPerWeek < 1
          THEN {"Posts per week must be at least 1"} ELSE {})
  \cup (IF ~input.dateOk THEN {"Invalid week start date"} ELSE {})

\* the errors validateInput collects; it throws iff there is one
validateInput(input, constraints) ==
  (IF ~input.companyOk THEN {"Company must have id and name"} ELSE {})
  \cup (IF input.personas < 2 THEN {"At least 2 personas are required"} ELSE {})
  \cup (IF ~input.personasOk THEN {"Persona missing required fields"} ELSE {})
  \cup (IF input.subreddits = 0 THEN {"At least 1 subreddit is required"} ELSE {})
  \cup (IF input.keywords = 0 THEN {"At least 1 keyword is required"} ELSE {})
  \cup (IF input.postsPerWeek < 1
          THEN {"Posts per week must be at least 1"} ELSE {})
  \cup (IF input.postsPerWeek
            > input.subreddits * constraints.maxPostsPerSubredditPerWeek
          THEN {"Cannot schedule posts with only these subreddits"} ELSE {})
  \cup (IF ~input.dateOk THEN {"Invalid week start date"} ELSE {})

\* the values of report.overallScore that are told apart, in tenths
ReportScores == {70, 100}

\* the report has an issue or a warning
hasFindings(report) == report.flagged # {} \/ report.unlocated

\* qualityResult before checkQuality has run
NoReport == [flagged |-> {}, unlocated |-> FALSE, overallScore |-> 100]

\* The reports checkQuality can give for the threads it is handed: the
\* post ids named by an issue's affectedPostIds or by a key of
\* warningsByPostId (every check takes them from thread.post.id of those
\* threads), whether there is an issue without post ids
\* (checkVoiceConsistency compares two authors, so there is a thread), and
\* the overall score (10 when nothing is deducted).
QualityReports(threads) ==
  { r \in [flagged : SUBSET Range(threads), unlocated : BOOLEAN,
           overallScore : ReportScores] :
      /\ Len(threads) = 0 => ~r.unlocated
      /\ ~hasFindings(r) => r.overallScore = 100 }

\* every post id a thread of the batch can have
allPostIds(report) ==
  report.flagged \cup ((1..MaxPosts) \X (0..MaxRepairPasses))

\* the threads as they were before the pass replaced the targeted ones
threadsBeforePass(before, repaired) == before

\* lines 222-224: threads = repaired, and checkQuality is run on threads
threadsToCheck(before, repaired) == repaired

\* the post ids the repair pass collects from the issues' affectedPostIds
\* and from the keys of warningsByPostId
targetPostIds(report) == report.flagged

\* the pipeline before it is called
PipeIdle ==
  /\ pipePc = "idle"
  /\ pipeInput = <<>>
  /\ pipeCons = DefaultPipeConstraints
  /\ pipeStages = <<>>
  /\ pipeError = {}
  /\ pipeSlots = 0
  /\ pipeMatched = 0
  /\ pipeAssigned = 0
  /\ pipeThreads = <<>>
  /\ pipeReport = NoReport
  /\ pipePass = 0
  /\ pipeOutput = <<>>
  /\ pipeBest = 0

\* generateWeeklyCalendar is entered
PipeStart ==
  /\ pipePc = "validate"
  /\ pipeInput \in PlannerInputs
  /\ pipeCons = DefaultPipeConstraints
  /\ pipeStages = <<>>
  /\ pipeError = {}
  /\ pipeSlots = 0
  /\ pipeMatched = 0
  /\ pipeAssigned = 0
  /\ pipeThreads = <<>>
  /\ pipeReport = NoReport
  /\ pipePass = 0
  /\ pipeOutput = <<>>
  /\ pipeBest = 0

\* applyRiskTolerance, then validateInput throws
PipeValidateThrows ==
  /\ pipePc = "validate"
  /\ pipeCons' = applyRiskTolerance(DefaultPipeConstraints,
                                    pipeInput.riskTolerance)
  /\ validateInput(pipeInput, pipeCons') # {}
  /\ pipeError' = validateInput(pipeInput, pipeCons')
  /\ pipePc' = "error"
  /\ UNCHANGED <<pipeInput, pipeStages, pipeSlots, pipeMatched, pipeAssigned,
                 pipeThreads, pipeReport, pipePass, pipeOutput, pipeBest>>
  /\ UNCHANGED otherThanPipe

\* applyRiskTolerance, then validateInput returns
PipeValidateOk ==
  /\ pipePc = "validate"
  /\ pipeCons' = applyRiskTolerance(DefaultPipeConstraints,
                                    pipeInput.riskTolerance)
  /\ validateInput(pipeInput, pipeCons') = {}
  /\ pipePc' = "allocate"
  /\ UNCHANGED <<pipeInput, pipeStages, pipeError, pipeSlots, pipeMatched,
                 pipeAssigned, pipeThreads, pipeReport, pipePass, pipeOutput, pipeBest>>
  /\ UNCHANGED otherThanPipe

\* phase 1: allocateSlots gives postsPerWeek slots
PipeAllocate ==
  /\ pipePc = "allocate"
  /\ pipeStages' = Append(pipeStages, "allocateSlots")
  /\ pipeSlots' = pipeInput.postsPerWeek
  /\ pipePc' = "match"
  /\ UNCHANGED <<pipeInput, pipeCons, pipeError, pipeMatched, pipeAssigned,
                 pipeThreads, pipeReport, pipePass, pipeOutput, pipeBest>>
  /\ UNCHANGED otherThanPipe

\* phase 2: matchSubreddits matches the first slot and skips any of the
\* others
PipeMatch ==
  /\ pipePc = "match"
  /\ pipeStages' = Append(pipeStages, "matchSubreddits")
  /\ pipeMatched' \in { m \in 0..pipeSlots :
                          m >= Min2(1, Min2(pipeSlots, pipeInput.subreddits)) }
  /\ pipePc' = "assign"
  /\ UNCHANGED <<pipeInput, pipeCons, pipeError, pipeSlots, pipeAssigned,
                 pipeThreads, pipeReport, pipePass, pipeOutput, pipeBest>>
  /\ UNCHANGED otherThanPipe

\* phase 3: assignPersonas (validation has left at least 2 personas)
\* assigns the slots it finds an OP for
PipeAssign ==
  /\ pipePc = "assign"
  /\ pipeInput.personas >= 2
  /\ pipeStages' = Append(pipeStages, "assignPersonas")
  /\ pipeAssigned' \in 0..pipeMatched
  /\ pipePc' = "generate"
  /\ UNCHANGED <<pipeInput, pipeCons, pipeError, pipeSlots, pipeMatched,
                 pipeThreads, pipeReport, pipePass, pipeOutput, pipeBest>>
  /\ UNCHANGED otherThanPipe

\* phase 4: generateThreads returns the threads that did not fail; the
\* post id of thread i is <<i, 0>>
PipeGenerate ==
  /\ pipePc = "generate"
  /\ pipeStages' = Append(pipeStages, "generateThreads")
  /\ \E n \in 0..pipeAssigned : pipeThreads' = [i \in 1..n |-> <<i, 0>>]
  /\ pipePc' = "check"
  /\ UNCHANGED <<pipeInput, pipeCons, pipeError, pipeSlots, pipeMatched,
                 pipeAssigned, pipeReport, pipePass, pipeOutput, pipeBest>>
  /\ UNCHANGED otherThanPipe

\* phase 5: checkQuality; the repair loop is entered if autoRepair is set
\* and the report has an issue or a warning
PipeCheck ==
  /\ pipePc = "check"
  /\ pipeStages' = Append(pipeStages, "checkQuality")
  /\ pipeReport' \in QualityReports(pipeThreads)
  /\ pipeBest' = Max2(pipeBest, pipeReport'.overallScore)
  /\ pipePc' = IF pipeInput.autoRepair /\ hasFindings(pipeReport')
                 THEN "repair" ELSE "score"
  /\ UNCHANGED <<pipeInput, pipeCons, pipeError, pipeSlots, pipeMatched,
                 pipeAssigned, pipeThreads, pipePass, pipeOutput>>
  /\ UNCHANGED otherThanPipe

\* the repair loop ends: the passes are used up, or no post is targeted
PipeRepairEnd ==
  /\ pipePc = "repair"
  /\ pipePass >= pipeInput.repairPasses \/ targetPostIds(pipeReport) = {}
  /\ pipePc' = "score"
  /\ UNCHANGED <<pipeInput, pipeCons, pipeStages, pipeError, pipeSlots,
                 pipeMatched, pipeAssigned, pipeThreads, pipeReport, pipePass,
                 pipeOutput, pipeBest>>
  /\ UNCHANGED otherThanPipe

\* one pass of the repair loop: the targeted threads are regenerated (a
\* regenerated thread has a new post id) and the threads are checked again
PipeRepairPass ==
  /\ pipePc = "repair"
  /\ pipePass < pipeInput.repairPasses /\ targetPostIds(pipeReport) # {}
  /\ pipePass' = pipePass + 1
  /\ pipeThreads' = [i \in 1..Len(pipeThreads) |->
                       IF pipeThreads[i] \in targetPostIds(pipeReport)
                         THEN <<i, pipePass + 1>> ELSE pipeThreads[i]]
  /\ pipeStages' = pipeStages \o <<"regenerateThread", "checkQuality">>
  /\ pipeReport' \in QualityReports(threadsToCheck(pipeThreads, pipeThreads'))
  /\ pipeBest' = Max2(pipeBest, pipeReport'.overallScore)
  /\ pipePc' = IF hasFindings(pipeReport') THEN "repair" ELSE "score"
  /\ UNCHANGED <<pipeInput, pipeCons, pipeError, pipeSlots, pipeMatched,
                 pipeAssigned, pipeOutput>>
  /\ UNCHANGED otherThanPipe

\* one pass of the repair loop in which regenerateThread rejects: the
\* error leaves generateWeeklyCalendar
PipeRepairThrows ==
  /\ pipePc = "repair"
  /\ pipePass < pipeInput.repairPasses /\ targetPostIds(pipeReport) # {}
  /\ pipePass' = pipePass + 1
  /\ pipeStages' = Append(pipeStages, "regenerateThread")
  /\ pipeError' = {"AI post generation failed"}
  /\ pipePc' = "error"
  /\ UNCHANGED <<pipeInput, pipeCons, pipeSlots, pipeMatched, pipeAssigned,
                 pipeThreads, pipeReport, pipeOutput, pipeBest>>
  /\ UNCHANGED otherThanPipe

\* the threads are scored and the output is returned
PipeReturn ==
  /\ pipePc = "score"
  /\ pipeStages' = Append(pipeStages, "scoreThread")
  /\ pipeOutput' = [posts |-> pipeThreads, qualityReport |-> pipeReport]
  /\ pipePc' = "done"
  /\ UNCHANGED <<pipeInput, pipeCons, pipeError, pipeSlots, pipeMatched,
                 pipeAssigned, pipeThreads, pipeReport, pipePass, pipeBest>>
  /\ UNCHANGED otherThanPipe

PipeNext ==
  \/ PipeValidateThrows
  \/ PipeValidateOk
  \/ PipeAllocate
  \/ PipeMatch
  \/ PipeAssign
  \/ PipeGenerate
  \/ PipeCheck
  \/ PipeRepairEnd
  \/ PipeRepairPass
  \/ PipeRepairThrows
  \/ PipeReturn

\* ========================================================= specifications
TimingInit ==
  TimingStart /\ AllocIdle /\ MatchIdle /\ AsgIdle /\ StoreIdle /\ GenIdle /\ ModeIdle /\ PostIdle /\ RewriteIdle /\ BackendIdle /\ ThreadsIdle /\ QualityIdle /\ PipeIdle

SpecTiming == TimingInit /\ [][TimingNext]_vars

ModeInit ==
  ModeStart /\ TimingIdle
  /\ AllocIdle /\ MatchIdle /\ AsgIdle /\ StoreIdle /\ GenIdle /\ PostIdle /\ RewriteIdle /\ BackendIdle /\ ThreadsIdle /\ QualityIdle /\ PipeIdle

SpecMode == ModeInit /\ [][ModeNext]_vars

PostInit ==
  PostStart /\ TimingIdle
  /\ ModeIdle
  /\ AllocIdle /\ MatchIdle /\ AsgIdle /\ StoreIdle /\ GenIdle /\ RewriteIdle /\ BackendIdle /\ ThreadsIdle /\ QualityIdle /\ PipeIdle

SpecPost == PostInit /\ [][PostNext]_vars

BackendInit ==
  BackendStart /\ TimingIdle
  /\ ModeIdle
  /\ PostIdle
  /\ AllocIdle /\ MatchIdle /\ AsgIdle /\ StoreIdle /\ GenIdle /\ RewriteIdle /\ ThreadsIdle /\ QualityIdle /\ PipeIdle

SpecBackend == BackendInit /\ [][BackendNext]_vars

\* The run under the scheduling of the runtime: a continuation that is
\* ready is eventually run.  Nothing obliges the provider to answer, and
\* generateWithAI sets no timer, so FetchSettles is under no fairness.
SpecBackendLive == SpecBackend /\ WF_vars(ProgramStep)

RewriteInit ==
  RewriteStart /\ TimingIdle
  /\ ModeIdle
  /\ PostIdle
  /\ BackendIdle
  /\ AllocIdle /\ MatchIdle /\ AsgIdle /\ StoreIdle /\ GenIdle /\ ThreadsIdle /\ QualityIdle /\ PipeIdle

SpecRewrite == RewriteInit /\ [][RewriteNext]_vars

ThreadsInit ==
  ThreadsStart /\ TimingIdle
  /\ ModeIdle
  /\ PostIdle
  /\ BackendIdle
  /\ RewriteIdle
  /\ AllocIdle /\ MatchIdle /\ AsgIdle /\ StoreIdle /\ GenIdle /\ QualityIdle /\ PipeIdle

SpecThreads == ThreadsInit /\ [][ThreadsNext]_vars

StoreInit ==
  StoreStart /\ TimingIdle
  /\ ModeIdle
  /\ PostIdle
  /\ BackendIdle
  /\ RewriteIdle
  /\ ThreadsIdle
  /\ AllocIdle /\ MatchIdle /\ AsgIdle /\ GenIdle /\ QualityIdle /\ PipeIdle

SpecStore == StoreInit /\ [][StoreNext]_vars

GenInit ==
  GenStart /\ TimingIdle
  /\ ModeIdle
  /\ PostIdle
  /\ BackendIdle
  /\ RewriteIdle
  /\ ThreadsIdle
  /\ StoreIdle
  /\ QualityIdle /\ PipeIdle /\ AllocIdle /\ MatchIdle /\ AsgIdle

SpecGen == GenInit /\ [][GenNext]_vars

QualityInit ==
  QualityStart /\ TimingIdle
  /\ ModeIdle
  /\ PostIdle
  /\ BackendIdle
  /\ RewriteIdle
  /\ ThreadsIdle
  /\ StoreIdle
  /\ GenIdle /\ PipeIdle /\ AllocIdle /\ MatchIdle /\ AsgIdle

SpecQuality == QualityInit /\ [][QualityNext]_vars

PipeInit ==
  PipeStart /\ TimingIdle
  /\ ModeIdle
  /\ PostIdle
  /\ BackendIdle
  /\ RewriteIdle
  /\ ThreadsIdle
  /\ StoreIdle
  /\ GenIdle /\ QualityIdle /\ AllocIdle /\ MatchIdle /\ AsgIdle

SpecPipeline == PipeInit /\ [][PipeNext]_vars

AllocInit ==
  AllocStart /\ TimingIdle
  /\ ModeIdle
  /\ PostIdle
  /\ BackendIdle
  /\ RewriteIdle
  /\ ThreadsIdle
  /\ StoreIdle
  /\ GenIdle /\ QualityIdle /\ PipeIdle /\ MatchIdle /\ AsgIdle

SpecAlloc == AllocInit /\ [][AllocNext]_vars

MatchInit ==
  MatchStart /\ TimingIdle
  /\ ModeIdle
  /\ PostIdle
  /\ BackendIdle
  /\ RewriteIdle
  /\ ThreadsIdle
  /\ StoreIdle
  /\ GenIdle /\ QualityIdle /\ PipeIdle /\ AllocIdle /\ AsgIdle

SpecMatch == MatchInit /\ [][MatchNext]_vars

AsgInit ==
  AsgStart /\ TimingIdle
  /\ ModeIdle
  /\ PostIdle
  /\ BackendIdle
  /\ RewriteIdle
  /\ ThreadsIdle
  /\ StoreIdle
  /\ GenIdle /\ QualityIdle /\ PipeIdle /\ AllocIdle /\ MatchIdle

SpecAssign == AsgInit /\ [][AsgNext]_vars

\* matchSubreddits or assignPersonas, whichever is called
StagesInit == MatchInit \/ AsgInit

StagesNext == MatchNext \/ AsgNext

SpecStages == StagesInit /\ [][StagesNext]_vars

\* -------------------------------------------- claims on generateThreads
\* C12: in live mode, once generateThread has failed for a slot, no thread
\* is generated for a later slot.
C12_FailureAbortsBatch ==
  ~gtMock =>
    \A e \in 1..Len(gtErrors) : \A t \in 1..Len(gtThreads) :
      gtThreads[t] < gtErrors[e]

\* ------------------------------------------------ claims on persistence
\* C11: every post loaded back by loadWeekPosts after saveCalendar equals,
\* field for field, the post that was saved under its id.
C11_RoundTrip ==
  dbPc = "loaded"
  => /\ Len(dbLoaded) = Len(dbOutput)
     /\ \A k \in 1..Len(dbLoaded) : dbLoaded[k] = dbOutput[dbLoaded[k].id]

\* ------------------------------------------ claims on the thread generator
\* C5: when allowProductMention is false and productMentionCount is 0, no
\* reply of the comments generateComments returns contains the company name,
\* whatever the backend or the mock returned.
C5_NoCompanyNameWhenDisallowed ==
  (/\ genPc = "done"
   /\ genPrefs.allowProductMention = "false"
   /\ genPrefs.productMentionCount = 0)
  => \A k \in 1..Len(genComments) : ~genComments[k].content.co

\* C6: with no preferences given, medium risk tolerance and a subreddit
\* without rules, a reply whose text as returned by the mock or by the
\* backend contains the company name does not contain it when
\* generateComments returns.
C6_ReturnedNameRemoved ==
  (/\ genPc = "done"
   /\ genPrefs = NoPreferences
   /\ genRisk = "medium"
   /\ genSubAllowsPromo)
  => \A k \in 1..Len(genComments) :
       genReturned[k] => ~genComments[k].content.co

\* C13: in mock mode generateComments never has generateWithAI fetch from
\* the external backend.
C13_MockNeverFetches ==
  genMock => ~genFetched

\* ------------------------------------------ claims on the backend call
\* C18: every call of the backend ends, whether or not the provider
\* answers: once the request is sent, generateWithAI eventually returns a
\* result to its caller.
C18_BackendCallEnds ==
  (aiPc = "waiting") ~> (aiPc = "result")

\* ------------------------------------------ claims on the post-processing
\* C17: during one generation of a thread the post-processing of a field,
\* a post body or one reply, calls the backend with a rewrite instruction
\* at most once.
C17_OneRewritePerField ==
  rwCalls <= 1

\* ------------------------------------------ claims on the quality checker
\* C9: the score of every thread scored by scoreThread and the overallScore
\* of every report lie in [0, 10] (0..100 tenths).
C9_ScoresInRange ==
  /\ \A k \in 1..Len(qReports) :
       qReports[k].overallScore >= 0 /\ qReports[k].overallScore <= 100
  /\ \A k \in 1..Len(qScores) :
       qScores[k].score >= 0 /\ qScores[k].score <= 100

\* a batch was checked whose score before the clamp lies outside [0, 10],
\* and a thread was scored
C9_Witness ==
  /\ qReports # <<>> /\ qScores # <<>>
  /\ \/ rawOverallScore(qReports[1].issues, qReports[1].warnings,
                        Len(qThreads)) < 0
     \/ rawOverallScore(qReports[1].issues, qReports[1].warnings,
                        Len(qThreads)) > 100

RequestInvalid ==
  \/ ~pipeInput.companyOk
  \/ pipeInput.personas < 2
  \/ ~pipeInput.personasOk
  \/ pipeInput.subreddits = 0
  \/ pipeInput.keywords = 0
  \/ pipeInput.postsPerWeek < 1
  \/ pipeInput.postsPerWeek
       > pipeInput.subreddits
           * applyRiskTolerance(DefaultPipeConstraints, pipeInput.riskTolerance)
               .maxPostsPerSubredditPerWeek
  \/ ~pipeInput.dateOk

\* C7: for a request that fails validation generateWeeklyCalendar throws
\* before a slot is allocated and before any stage runs.
C7_InvalidRequestNotProcessed ==
  RequestInvalid =>
    /\ pipePc \in {"validate", "error"}
    /\ pipeStages = <<>>
    /\ pipeSlots = 0 /\ pipeMatched = 0 /\ pipeAssigned = 0
    /\ pipeThreads = <<>>

\* one subreddit and more posts than its cap of 2: the error was thrown
C7_Witness ==
  /\ pipePc = "error"
  /\ pipeInput.subreddits = 1
  /\ pipeCons.maxPostsPerSubredditPerWeek = 2
  /\ pipeInput.postsPerWeek > 2
  /\ pipeError = {"Cannot schedule posts with only these subreddits"}

\* C14: with autoRepair set the repair loop makes at most repairPasses
\* passes, and when it has ended with passes left over the last report has
\* no issue and no warning.
C14_RepairLoopBudget ==
  /\ pipePass <= (IF pipePc = "idle" THEN 0 ELSE pipeInput.repairPasses)
  /\ (pipePc \in {"score", "done"} /\ pipeInput.autoRepair
        /\ pipePass < pipeInput.repairPasses)
       => ~hasFindings(pipeReport)

\* C15: when the run ends with the repair passes used up and an issue or
\* a warning left, the report it returns has an overall score at least as
\* high as every report checkQuality computed earlier in the run.
C15_ReturnsBestReport ==
  (pipePc = "done" /\ pipeInput.autoRepair
     /\ pipePass = pipeInput.repairPasses
     /\ hasFindings(pipeOutput.qualityReport))
    => pipeOutput.qualityReport.overallScore >= pipeBest

\* C16: in a repair pass a thread is regenerated if and only if its post
\* id is named by an issue or a warning of the current report; every other
\* thread is carried over as it is, and no thread is added or dropped.
C16_OnlyFlaggedRegenerated ==
  [][(pipePc = "repair" /\ pipePass' = pipePass + 1 /\ pipePc' # "error")
       => /\ Len(pipeThreads') = Len(pipeThreads)
          /\ \A i \in 1..Len(pipeThreads) :
               IF pipeThreads[i] \in pipeReport.flagged
                 THEN pipeThreads'[i] = <<i, pipePass'>>
                 ELSE pipeThreads'[i] = pipeThreads[i]]_vars

\* after a repair pass one thread is the regenerated one and another is
\* still the thread generateThreads returned
C16_Witness ==
  /\ pipePass >= 1
  /\ pipePc \in {"repair", "score", "done"}
  /\ \E i, j \in 1..Len(pipeThreads) :
       pipeThreads[i] = <<i, pipePass>> /\ pipeThreads[j] = <<j, 0>>

C20_TooFewPersonasThrows ==
  asgPersonas < 2 =>
    /\ asgPc \in {"idle", "run", "error"}
    /\ asgPc = "error" \/ ENABLED AssignTooFewPersonas \/ asgPc = "idle"
    /\ assignedSlots = <<>>
    /\ asgWarnings = {}

\* assignPersonas was called with one persona and has thrown
C20_Witness ==
  asgPersonas = 1 /\ asgPc = "error" /\ assignedSlots = <<>>

\* ------------------------------------------------ claims on the allocator
\* C8: for a request with N >= 1 posts allocateSlots returns exactly N
\* slots, and their dates are in non-decreasing order.
C8_CountAndOrder ==
  (alPc = "done" /\ alCount >= 1) =>
    /\ Len(alSlots) = alCount
    /\ \A i, j \in 1..Len(alSlots) : i < j => alSlots[i].date <= alSlots[j].date

\* slots were returned whose days were not chosen in chronological order
C8_Witness ==
  /\ alPc = "done"
  /\ Len(alSlots) >= 4
  /\ \E i \in 1..(Len(daysToUse) - 1) : daysToUse[i] > daysToUse[i + 1]

\* -------------------------------------------------- claims on the matcher
\* the number of MatchedSlots a subreddit received
postsMatched(s) ==
  Cardinality({ i \in 1..Len(matchedSlots) : matchedSlots[i].subreddit = s })

RECURSIVE SumCaps(_)
\* the sum of the effective weekly caps of the subreddits 1..n
SumCaps(n) ==
  IF n = 0 THEN 0
  ELSE SumCaps(n - 1)
         + getSubredditConstraints(mSubs[n], mCons).maxPostsPerSubredditPerWeek

\* C3: once the matcher has processed all slots, and the subreddits
\* together have room for them under their effective caps, no subreddit has
\* more MatchedSlots than its effective maxPostsPerSubredditPerWeek (the
\* base cap adjusted by its sensitivity and its preset).
C3_EffectiveCapRespected ==
  (mPc = "done" /\ mIdx <= SumCaps(Len(mSubs))) =>
    \A s \in 1..Len(mSubs) :
      postsMatched(s)
        <= getSubredditConstraints(mSubs[s], mCons).maxPostsPerSubredditPerWeek

\* ------------------------------------------------ claims on the assigner
\* the unordered pairs of personas that occur together in an AssignedSlot
PairsOf(a) ==
  LET who == {a.opPersona} \cup Range(a.commenterPersonas)
  IN { createPairingKey(p, q) : <<p, q>> \in { pq \in who \X who : pq[1] < pq[2] } }

\* C1: with noRepeatedPairingsPerWeek = true and enough personas that the
\* relaxed filter was never needed, no unordered pair of personas occurs
\* together (author-reactor or reactor-reactor) in two AssignedSlots.
C1_NoPairTwice ==
  (asgCons.noRepeatedPairingsPerWeek /\ ~asgRelaxed) =>
    \A i, j \in 1..Len(assignedSlots) :
      i < j => PairsOf(assignedSlots[i]) \cap PairsOf(assignedSlots[j]) = {}

\* C2: every AssignedSlot has at least 1 and at most
\* maxPersonasPerThread - 1 reactors.
C2_ReactorCount ==
  \A i \in 1..Len(assignedSlots) :
    /\ Len(assignedSlots[i].commenterPersonas) >= 1
    /\ Len(assignedSlots[i].commenterPersonas)
         <= asgCons.maxPersonasPerThread - 1

\* C4: in every AssignedSlot the author is not one of the reactors, also
\* when the pairing rule was relaxed.
C4_AuthorNotReactor ==
  \A i \in 1..Len(assignedSlots) :
    assignedSlots[i].opPersona \notin Range(assignedSlots[i].commenterPersonas)

\* a slot was assigned through the relaxed filter
C4_Witness ==
  /\ asgRelaxed
  /\ Len(assignedSlots) >= 2
  /\ assignedSlots[Len(assignedSlots)].commenterPersonas # <<>>

\* C21: in one run of assignPersonas no persona is the OP of more than
\* maxPostsPerPersonaPerWeek assigned slots.
C21_PostCapRespected ==
  \A p \in 1..asgPersonas :
    Cardinality({ i \in 1..Len(assignedSlots) :
                    assignedSlots[i].opPersona = p })
      <= asgCons.maxPostsPerPersonaPerWeek

\* with a cap of 1 a second slot was assigned at a time at which the
\* spacing rule would have let the OP of the first post again
C21_Witness ==
  /\ asgCons.maxPostsPerPersonaPerWeek = 1
  /\ Len(assignedSlots) = 2
  /\ asgNow - usage[assignedSlots[1].opPersona].lastPostDate
       >= asgCons.minHoursBetweenSamePersonaPosts

\* C22: in one run of assignPersonas no persona is a commenter of more
\* than maxCommentsPerPersonaPerWeek assigned slots, also when the fallback
\* filter without the pairing rule was used.
C22_CommentCapRespected ==
  \A p \in 1..asgPersonas :
    Cardinality({ i \in 1..Len(assignedSlots) :
                    p \in Range(assignedSlots[i].commenterPersonas) })
      <= asgCons.maxCommentsPerPersonaPerWeek

\* with a cap of 1 the fallback filter was used for the second slot, which
\* got a commenter, while a commenter of the first slot was at the cap
C22_Witness ==
  /\ asgRelaxed
  /\ asgCons.maxCommentsPerPersonaPerWeek = 1
  /\ Len(assignedSlots) = 2
  /\ assignedSlots[1].commenterPersonas # <<>>
  /\ assignedSlots[2].commenterPersonas # <<>>

\* C23: in every thread the number of replies whose prompt tells the
\* commenter to mention the company is at most preferences.productMentionCount
\* (0 when not given).
C23_MentionsWithinTarget ==
  Cardinality({ k \in 1..Len(genComments) :
                  /\ genComments[k].persona # 0
                  /\ promptMentionsProduct(genComments[k].persona, genPrefs, genRisk,
                                           genSubAllowsPromo, mentionIndices,
                                           mentionProductIndex) })
    <= genPrefs.productMentionCount

\* C24: when preferences.requireDisagreement is true, exactly one reply of a
\* generated thread that has replies from commenters was written from a
\* prompt that tells the commenter to disagree.
C24_OneDissenter ==
  (/\ genPc = "done"
   /\ genPrefs.requireDisagreement
   /\ Len(genCommenters) >= 1)
    => Cardinality({ k \in 1..Len(genComments) :
                       /\ genComments[k].persona # 0
                       /\ promptForcesDisagreement(genComments[k].persona,
                                                   disagreementIndex) }) = 1

\* -------------------------------------------------- claims on generatePost
\* C25: outside mock mode a returned post has the title and the body the
\* backend gave (sanitized or rewritten by the backend), never a default
\* text: an empty or missing title or body makes generatePost fail.
C25_NoPlaceholderText ==
  (postPc = "done" /\ ~postMock)
    => /\ postTitle.text = postResult.title.text
       /\ postTitle.text # ""
       /\ postBody.text # ""

\* ------------------------------------------------- claims on the mode flag
\* C26: once setMockMode has been called, isMockMode() returns the value it
\* was last called with.
C26_ModeIsLastSet ==
  \A k \in 1..Len(modeReads) :
    modeReads[k].set # "unset" => modeReads[k].got = (modeReads[k].set = "true")

\* ------------------------------------------------- claims on reply timing
\* a delay lies between two bounds, whichever of them is the lower one
between(d, a, b) == Min2(a, b) <= d /\ d <= Max2(a, b)

\* C27: the first reply's delayMinutes lies between minDelayAfterPostMinutes
\* and maxDelayAfterPostMinutes, and the delayMinutes of every later reply
\* of a commenter lies between the two bounds of commentSpacingMinutes.
C27_DelaysWithinBounds ==
  \A k \in 1..Len(tmComments) :
    ~tmComments[k].op =>
      IF k = 1
        THEN between(tmComments[k].delayMinutes,
                     tmCons.minDelayAfterPostMinutes,
                     tmCons.maxDelayAfterPostMinutes)
        ELSE between(tmComments[k].delayMinutes,
                     tmCons.commentSpacingMinutes[1],
                     tmCons.commentSpacingMinutes[2])

\* a thread with two replies of commenters whose two delay ranges do not
\* meet
C27_Witness ==
  /\ Len(tmComments) >= 2
  /\ ~tmComments[2].op
  /\ tmCons.minDelayAfterPostMinutes < tmCons.maxDelayAfterPostMinutes
  /\ tmCons.maxDelayAfterPostMinutes < tmCons.commentSpacingMinutes[1]
  /\ tmCons.commentSpacingMinutes[1] <= tmCons.commentSpacingMinutes[2]

\* the scheduledAt of the comment before comment k, or of the post
previousTime(k) == IF k = 1 THEN 0 ELSE tmComments[k - 1].scheduledAt

\* the lower end of each of the three delay ranges is positive
positiveDelays ==
  /\ Min2(tmCons.minDelayAfterPostMinutes, tmCons.maxDelayAfterPostMinutes) > 0
  /\ Min2(tmCons.commentSpacingMinutes[1], tmCons.commentSpacingMinutes[2]) > 0
  /\ Min2(tmCons.opFollowUpDelayMinutes[1], tmCons.opFollowUpDelayMinutes[2]) > 0

\* C30: every comment of a thread, the author's follow-up included, is
\* scheduled at the time of the comment before it (of the post, for the
\* first) plus its own delayMinutes; when the delay ranges are positive the
\* comments are scheduled in strictly increasing order after the post.
C30_ScheduledAfterPrevious ==
  \A k \in 1..Len(tmComments) :
    /\ tmComments[k].scheduledAt = previousTime(k) + tmComments[k].delayMinutes
    /\ positiveDelays => tmComments[k].scheduledAt > previousTime(k)

\* a returned thread of two replies and the author's follow-up, with
\* positive delay ranges
C30_Witness ==
  /\ tmPc = "done"
  /\ Len(tmComments) = 3
  /\ tmComments[3].op
  /\ positiveDelays

\* ------------------------------------------- claims on failures in the run
\* C28: a backend failure has the same outcome for the run in both phases:
\* no run goes on without the thread of a slot that failed in
\* generateThreads and then ends with the error of a thread that failed in
\* a repair pass.
C28_FailuresHandledAlike ==
  ~(/\ Len(pipeThreads) < pipeAssigned
    /\ "checkQuality" \in Range(pipeStages)
    /\ pipePc = "error"
    /\ pipeStages[Len(pipeStages)] = "regenerateThread")

\* C29: every post id the returned QualityReport refers to is the id of a
\* returned post, also when repair passes have replaced threads by
\* regenerated ones with new ids.
C29_ReportRefersToReturnedPosts ==
  pipePc = "done"
    => pipeOutput.qualityReport.flagged \subseteq Range(pipeOutput.posts)

\* a finished run whose report names a regenerated post
C29_Witness ==
  /\ pipePc = "done"
  /\ \E id \in pipeOutput.qualityReport.flagged : id[2] >= 1

====
